---- MODULE Spec2Model ----
(***************************************************************************)
(* Model of the site's server code and of its two replay pages.           *)
(*                                                                         *)
(* 1. The action queue builder of api/hands/lib/types.ts, and its private  *)
(* copy in api/daily10/challenge/[id].ts as operators of its own.          *)
(* buildActionQueue(action, hero) expands a sparse, position-keyed record  *)
(* of a poker hand into an ordered list of HandAction events.  The model   *)
(* keeps the JavaScript values of the input (objects with their            *)
(* insertion-ordered entries, strings, numbers, null, undefined), so that  *)
(* every typeof / truthiness test of the code is a test of the model.      *)
(* Amounts are counted in half big blinds: the code's 0.5 is 1 and its     *)
(* 1.0 is 2 (SB_POST, BB_POST).                                            *)
(*                                                                         *)
(* 2. The invite endpoints (GET /invite/:username, POST claim-by-          *)
(* fingerprint, create-pending-invite, claim-latest-invite and redeem)     *)
(* over the Firestore collections invite_claims, pending_invites and       *)
(* redeemed_invites.  A handler that reads and later writes is two steps,  *)
(* so that concurrent requests interleave between its awaits.  Time is     *)
(* counted in hours.                                                       *)
(*                                                                         *)
(* 3. POST /api/hands/share over the collection shared_hands, in two       *)
(* steps as well.                                                          *)
(*                                                                         *)
(* 4. The scripts of the challenge replay page (daily10/challenge/[id].ts) *)
(* and of the shared-hand replay page (hands/[id].ts): their variables,    *)
(* their button handlers and their setTimeout callbacks.                   *)
(***************************************************************************)
EXTENDS Integers, Sequences, FiniteSets, TLC

VARIABLES
    action,           \* the per-street map handed to buildActionQueue
    hero,             \* the hero position handed to buildActionQueue
    pc,               \* where buildActionQueue stands: preflop, flop, turn, river, done
    queue,            \* the local `queue` of buildActionQueue
    foldedPositions,  \* the local `foldedPositions` of buildActionQueue
    ends,             \* per street processed so far: Len(queue) and foldedPositions at its end
    calls,            \* number of calls of buildActionQueue started so far
    firstCall,        \* input and output of the first call, once it has returned
    now,              \* the clock, in hours
    inviteClaims,     \* the documents of the collection invite_claims
    pendingInvites,   \* the documents of the collection pending_invites
    redeemedInvites,  \* the documents of the collection redeemed_invites
    inflight,         \* requests that have read and not yet written
    lastResp,         \* the last response sent
    requests,         \* number of requests received so far
    sharedHands,      \* the documents of the collection shared_hands
    shareInflight,    \* share requests that have queried and not yet written
    shareResponses,   \* the responses of POST /api/hands/share, in the order sent
    challengePage,    \* the challenge replay page: the puzzle, PUZZLE and the script's state
    handPage          \* the shared-hand replay page: HAND and the script's state

handVars == <<action, hero, pc, queue, foldedPositions, ends, calls, firstCall>>
inviteVars == <<now, inviteClaims, pendingInvites, redeemedInvites, inflight, lastResp, requests>>
webVars == <<sharedHands, shareInflight, shareResponses, challengePage, handPage>>
vars == <<action, hero, pc, queue, foldedPositions, ends, calls, firstCall,
          now, inviteClaims, pendingInvites, redeemedInvites, inflight, lastResp, requests,
          sharedHands, shareInflight, shareResponses, challengePage, handPage>>

-----------------------------------------------------------------------------
(* JavaScript values.  One record shape for all of them: t is the kind, n  *)
(* the number, s the string, e the object's entries in insertion order     *)
(* (Object.entries order for string keys).                                 *)

JSUndefined == [t |-> "undefined", n |-> 0, s |-> "", e |-> <<>>]
JSNull == [t |-> "null", n |-> 0, s |-> "", e |-> <<>>]
JSNum(x) == [t |-> "number", n |-> x, s |-> "", e |-> <<>>]
JSStr(x) == [t |-> "string", n |-> 0, s |-> x, e |-> <<>>]
JSObj(entries) == [t |-> "object", n |-> 0, s |-> "", e |-> entries]
JSFalse == [t |-> "boolean", n |-> 0, s |-> "", e |-> <<>>]
JSTrue == [t |-> "boolean", n |-> 1, s |-> "", e |-> <<>>]
KV(key, value) == [k |-> key, v |-> value]

\* typeof v
TypeOf(v) == IF v.t = "null" THEN "object" ELSE v.t

\* the truthiness of v, as in `!v` and `v && ...`
Truthy(v) ==
    CASE v.t = "undefined" -> FALSE
      [] v.t = "null" -> FALSE
      [] v.t = "number" -> v.n # 0
      [] v.t = "string" -> v.s # ""
      [] v.t = "boolean" -> v.n # 0
      [] OTHER -> TRUE

\* o[key]: the value of the entry with that key, undefined when there is none
Get(o, key) ==
    IF \E i \in 1..Len(o.e) : o.e[i].k = key
    THEN o.e[CHOOSE i \in 1..Len(o.e) : o.e[i].k = key].v
    ELSE JSUndefined

\* mutant of MapSet: a key already in the map keeps its value
MapSet_KeepFirst(m, key, value) ==
    [x \in (DOMAIN m) \cup {key} |-> IF x \in DOMAIN m THEN m[x] ELSE value]

\* Map.prototype.set on a map kept as a function
MapSet(m, key, value) ==
    [x \in (DOMAIN m) \cup {key} |-> IF x = key THEN value ELSE m[x]]

StartsWith(str, prefix) ==
    /\ Len(str) >= Len(prefix)
    /\ SubSeq(str, 1, Len(prefix)) = prefix

\* Array.prototype.indexOf, 1-based: 0 when absent (the code's -1)
IndexOf(seq, x) ==
    IF \E i \in 1..Len(seq) : seq[i] = x
    THEN CHOOSE i \in 1..Len(seq) : seq[i] = x /\ \A j \in 1..(i-1) : seq[j] # x
    ELSE 0

-----------------------------------------------------------------------------
(* Position model, normalizer, key decoder, board card extractor.          *)

PREFLOP_ORDER == <<"UTG", "HJ", "CO", "BTN", "SB", "BB">>
POSTFLOP_ORDER == <<"SB", "BB", "UTG", "HJ", "CO", "BTN">>
ALL_POSITIONS == {"SB", "BB", "UTG", "HJ", "CO", "BTN"}

SB_POST == 1
BB_POST == 2

\* /^[345]-?[Bb]et$/i
MatchesNBet(label) ==
    LET n == Len(label) IN
    /\ n \in {4, 5}
    /\ SubSeq(label, 1, 1) \in {"3", "4", "5"}
    /\ (n = 5 => SubSeq(label, 2, 2) = "-")
    /\ SubSeq(label, n - 2, n - 2) \in {"B", "b"}
    /\ SubSeq(label, n - 1, n - 1) \in {"E", "e"}
    /\ SubSeq(label, n, n) \in {"T", "t"}

\* mutant of normalizeAction: labels are kept as recorded
normalizeAction_Verbatim(label) == label

normalizeAction(label) ==
    IF MatchesNBet(label) \/ label \in {"3Bet", "3bet", "4Bet", "4bet", "5Bet", "5bet"}
    THEN "Raise"
    ELSE label

\* ok = FALSE stands for the code's null
parsePositionKey(key) ==
    IF key \in ALL_POSITIONS
    THEN [ok |-> TRUE, position |-> key, isSecondAction |-> FALSE]
    ELSE IF \E pos \in ALL_POSITIONS : StartsWith(key, pos \o "_")
    THEN [ok |-> TRUE,
          position |-> CHOOSE pos \in ALL_POSITIONS : StartsWith(key, pos \o "_"),
          isSecondAction |-> TRUE]
    ELSE [ok |-> FALSE, position |-> "", isSecondAction |-> FALSE]

\* mutant of ScanNestedCards: the first nested Cards string is taken whatever its length
RECURSIVE ScanNestedCards_AnyLength(_, _, _)
ScanNestedCards_AnyLength(entries, i, expectedLength) ==
    IF i > Len(entries) THEN JSNull
    ELSE LET value == entries[i].v IN
         IF Truthy(value) /\ TypeOf(value) = "object" /\ TypeOf(Get(value, "Cards")) = "string"
         THEN Get(value, "Cards")
         ELSE ScanNestedCards_AnyLength(entries, i + 1, expectedLength)

\* the scan of Object.values(streetData) from index i on
RECURSIVE ScanNestedCards(_, _, _)
ScanNestedCards(entries, i, expectedLength) ==
    IF i > Len(entries) THEN JSNull
    ELSE LET value == entries[i].v IN
         IF /\ Truthy(value)
            /\ TypeOf(value) = "object"
            /\ TypeOf(Get(value, "Cards")) = "string"
            /\ Len(Get(value, "Cards").s) >= expectedLength
         THEN Get(value, "Cards")
         ELSE ScanNestedCards(entries, i + 1, expectedLength)

extractBoardCards(streetData, expectedLength) ==
    IF TypeOf(Get(streetData, "Cards")) = "string" /\ Len(Get(streetData, "Cards").s) > 0
    THEN Get(streetData, "Cards")
    ELSE ScanNestedCards(streetData.e, 1, expectedLength)

-----------------------------------------------------------------------------
(* HandAction events.  boardCards is "" on every event but Board.          *)

Ev(position, act, amount) ==
    [position |-> position, action |-> act, amount |-> amount,
     isBoard |-> FALSE, boardCards |-> ""]

BoardEv(cards) ==
    [position |-> "", action |-> "Board", amount |-> 0,
     isBoard |-> TRUE, boardCards |-> cards]

ActionPair(act, amount) == [action |-> act, amount |-> amount]

\* mutant of Malformed: an object without a string Action is decoded too
Malformed_NoLabelCheck(value) == ~Truthy(value) \/ TypeOf(value) # "object"

\* the entry is skipped by the decoding loops
Malformed(value) ==
    \/ ~Truthy(value)
    \/ TypeOf(value) # "object"
    \/ TypeOf(Get(value, "Action")) # "string"

AmountOf(value) ==
    IF TypeOf(Get(value, "Amount")) = "number" THEN Get(value, "Amount").n ELSE 0

\* mutant of InferCalls: a Call without amount keeps amount 0
InferCalls_Keep(m, last) == m

\* "Infer call amounts": a Call of amount 0 takes the last amount
InferCalls(m, last) ==
    [p \in DOMAIN m |->
        IF m[p].action = "Call" /\ m[p].amount = 0 THEN ActionPair("Call", last) ELSE m[p]]

-----------------------------------------------------------------------------
(* buildPreflopActions.  Loop states are records [actions, folded].        *)

\* the decoding loop over Object.entries(preflop), from entry i on;
\* st = [pa: positionActions, sa: secondActions, last: lastRaiseAmount]
RECURSIVE PreflopParse(_, _, _)
PreflopParse(entries, i, st) ==
    IF i > Len(entries) THEN st
    ELSE LET parsed == parsePositionKey(entries[i].k)
             value == entries[i].v
         IN
         IF ~parsed.ok \/ Malformed(value) THEN PreflopParse(entries, i + 1, st)
         ELSE LET amount == AmountOf(value)
                  normalized == normalizeAction(Get(value, "Action").s)
                  last == IF normalized = "Raise" /\ amount > 0 THEN amount ELSE st.last
                  pair == ActionPair(normalized, amount)
              IN
              IF parsed.isSecondAction
              THEN PreflopParse(entries, i + 1,
                       [pa |-> st.pa, sa |-> MapSet(st.sa, parsed.position, pair), last |-> last])
              ELSE PreflopParse(entries, i + 1,
                       [pa |-> MapSet(st.pa, parsed.position, pair), sa |-> st.sa, last |-> last])

\* mutant of InfersFold: a silent blind folds in an unraised pot too
InfersFold_Always(position, hasRaise) == TRUE

\* whether a seat before the hero with no entry gets an inferred Fold:
\* always outside the blinds, in the blinds only when the pot is raised
InfersFold(position, hasRaise) ==
    IF position # "SB" /\ position # "BB" THEN TRUE ELSE hasRaise

\* "First orbit - positions before hero", from PREFLOP_ORDER[i] on
RECURSIVE PreflopBeforeHero(_, _, _, _, _)
PreflopBeforeHero(i, acc, positionActions, heroPos, hasRaise) ==
    IF i > Len(PREFLOP_ORDER) THEN acc
    ELSE LET position == PREFLOP_ORDER[i] IN
         IF position = heroPos THEN acc
         ELSE IF position \in DOMAIN positionActions
         THEN LET data == positionActions[position] IN
              PreflopBeforeHero(i + 1,
                  [actions |-> Append(acc.actions, Ev(position, data.action, data.amount)),
                   folded |-> IF data.action = "Fold" THEN acc.folded \cup {position}
                              ELSE acc.folded],
                  positionActions, heroPos, hasRaise)
         ELSE IF InfersFold(position, hasRaise)
         THEN PreflopBeforeHero(i + 1,
                  [actions |-> Append(acc.actions, Ev(position, "Fold", 0)),
                   folded |-> acc.folded \cup {position}],
                  positionActions, heroPos, hasRaise)
         ELSE PreflopBeforeHero(i + 1, acc, positionActions, heroPos, hasRaise)

\* "Hero's action"
PreflopHero(acc, positionActions, heroPos) ==
    IF heroPos \in DOMAIN positionActions
    THEN [actions |-> Append(acc.actions,
                         Ev(heroPos, positionActions[heroPos].action,
                            positionActions[heroPos].amount)),
          folded |-> acc.folded]
    ELSE acc

\* "Positions after hero", from PREFLOP_ORDER[i] on
RECURSIVE PreflopAfterHero(_, _, _)
PreflopAfterHero(i, acc, positionActions) ==
    IF i > Len(PREFLOP_ORDER) THEN acc
    ELSE LET position == PREFLOP_ORDER[i] IN
         IF position \in acc.folded THEN PreflopAfterHero(i + 1, acc, positionActions)
         ELSE IF position \in DOMAIN positionActions
         THEN LET data == positionActions[position] IN
              PreflopAfterHero(i + 1,
                  [actions |-> Append(acc.actions, Ev(position, data.action, data.amount)),
                   folded |-> IF data.action = "Fold" THEN acc.folded \cup {position}
                              ELSE acc.folded],
                  positionActions)
         ELSE PreflopAfterHero(i + 1,
                  [actions |-> Append(acc.actions, Ev(position, "Fold", 0)),
                   folded |-> acc.folded \cup {position}],
                  positionActions)

\* mutant of TrackRaises: the last raiser is taken for the original raiser
TrackRaises_LastRaiser(positionActions, lastRaiseAmount) ==
    LET raisers == SelectSeq(PREFLOP_ORDER,
                       LAMBDA p : p \in DOMAIN positionActions
                                  /\ positionActions[p].action = "Raise")
    IN [originalRaiser |-> IF Len(raisers) > 0 THEN {raisers[Len(raisers)]} ELSE {},
        finalRaiseAmount |-> IF Len(raisers) > 0
                             THEN positionActions[raisers[Len(raisers)]].amount
                             ELSE lastRaiseAmount,
        raiseCount |-> Len(raisers)]

\* "Track raises for second orbit": originalRaiser is a set, empty for null
TrackRaises(positionActions, lastRaiseAmount) ==
    LET raisers == SelectSeq(PREFLOP_ORDER,
                       LAMBDA p : p \in DOMAIN positionActions
                                  /\ positionActions[p].action = "Raise")
    IN [originalRaiser |-> IF Len(raisers) > 0 THEN {raisers[1]} ELSE {},
        finalRaiseAmount |-> IF Len(raisers) > 0
                             THEN positionActions[raisers[Len(raisers)]].amount
                             ELSE lastRaiseAmount,
        raiseCount |-> Len(raisers)]

\* "Second orbit", from PREFLOP_ORDER[i] on
RECURSIVE PreflopSecondOrbit(_, _, _, _, _)
PreflopSecondOrbit(i, acc, secondActions, heroPos, tr) ==
    IF i > Len(PREFLOP_ORDER) THEN acc
    ELSE LET position == PREFLOP_ORDER[i] IN
         IF position \in acc.folded
         THEN PreflopSecondOrbit(i + 1, acc, secondActions, heroPos, tr)
         ELSE IF position = heroPos
         THEN IF heroPos \in DOMAIN secondActions
              THEN [actions |-> Append(acc.actions,
                                   Ev(heroPos, secondActions[heroPos].action,
                                      secondActions[heroPos].amount)),
                    folded |-> acc.folded]
              ELSE IF tr.raiseCount > 1 /\ heroPos \in tr.originalRaiser
                      /\ heroPos \notin acc.folded
              THEN [actions |-> Append(acc.actions, Ev(heroPos, "Call", tr.finalRaiseAmount)),
                    folded |-> acc.folded]
              ELSE acc
         ELSE IF position \in DOMAIN secondActions
         THEN LET data == secondActions[position] IN
              PreflopSecondOrbit(i + 1,
                  [actions |-> Append(acc.actions, Ev(position, data.action, data.amount)),
                   folded |-> IF data.action = "Fold" THEN acc.folded \cup {position}
                              ELSE acc.folded],
                  secondActions, heroPos, tr)
         ELSE IF tr.raiseCount > 1 /\ position \in tr.originalRaiser
                 /\ position \notin acc.folded
         THEN PreflopSecondOrbit(i + 1,
                  [actions |-> Append(acc.actions, Ev(position, "Call", tr.finalRaiseAmount)),
                   folded |-> acc.folded],
                  secondActions, heroPos, tr)
         ELSE PreflopSecondOrbit(i + 1, acc, secondActions, heroPos, tr)

\* mutant of BlindPosts: the posts pushed in the wrong order
BlindPosts_Swapped == <<Ev("BB", "Post", BB_POST), Ev("SB", "Post", SB_POST)>>

\* the two forced posts the preflop list starts with
BlindPosts == <<Ev("SB", "Post", SB_POST), Ev("BB", "Post", BB_POST)>>

\* the decoded preflop street: both maps after call inference, and lastRaiseAmount
PreflopDecoded(preflop) ==
    LET st == PreflopParse(preflop.e, 1, [pa |-> <<>>, sa |-> <<>>, last |-> BB_POST])
    IN [pa |-> InferCalls(st.pa, st.last), sa |-> InferCalls(st.sa, st.last), last |-> st.last]

buildPreflopActions(preflop, heroPos) ==
    LET d == PreflopDecoded(preflop)
        hasRaise == \E p \in DOMAIN d.pa : d.pa[p].action = "Raise"
        a0 == [actions |-> BlindPosts, folded |-> {}]
        a1 == PreflopBeforeHero(1, a0, d.pa, heroPos, hasRaise)
        a2 == PreflopHero(a1, d.pa, heroPos)
        a3 == PreflopAfterHero(IndexOf(PREFLOP_ORDER, heroPos) + 1, a2, d.pa)
        tr == TrackRaises(d.pa, d.last)
    IN PreflopSecondOrbit(1, a3, d.sa, heroPos, tr)

-----------------------------------------------------------------------------
(* buildPostflopActions.  Loop states are records [actions, newFolded].    *)

\* the decoding loop over Object.entries(streetData), from entry i on;
\* st = [pa: positionActions, sa: secondActions, last: lastBetAmount]
RECURSIVE PostflopParse(_, _, _)
PostflopParse(entries, i, st) ==
    IF i > Len(entries) THEN st
    ELSE LET parsed == parsePositionKey(entries[i].k)
             value == entries[i].v
         IN
         IF ~parsed.ok \/ Malformed(value) THEN PostflopParse(entries, i + 1, st)
         ELSE LET amount == AmountOf(value)
                  normalized == normalizeAction(Get(value, "Action").s)
                  last == IF (normalized = "Bet" \/ normalized = "Raise") /\ amount > 0
                          THEN amount ELSE st.last
                  pair == ActionPair(normalized, amount)
              IN
              IF parsed.isSecondAction
              THEN PostflopParse(entries, i + 1,
                       [pa |-> st.pa, sa |-> MapSet(st.sa, parsed.position, pair), last |-> last])
              ELSE PostflopParse(entries, i + 1,
                       [pa |-> MapSet(st.pa, parsed.position, pair), sa |-> st.sa, last |-> last])

\* the decoded postflop street: both maps after call inference, and lastBetAmount
PostflopDecoded(streetData) ==
    LET st == PostflopParse(streetData.e, 1, [pa |-> <<>>, sa |-> <<>>, last |-> 0])
    IN IF st.last > 0
       THEN [pa |-> InferCalls(st.pa, st.last), sa |-> InferCalls(st.sa, st.last),
             last |-> st.last]
       ELSE st

\* mutant of ActivePositions: the filter on the folded set is lost
ActivePositions_Unfiltered(folded) == POSTFLOP_ORDER

\* POSTFLOP_ORDER.filter(p => !foldedPositions.has(p))
ActivePositions(folded) ==
    SelectSeq(POSTFLOP_ORDER, LAMBDA p : p \notin folded)

IsBetOrRaise(positionActions, position) ==
    /\ position \in DOMAIN positionActions
    /\ positionActions[position].action \in {"Bet", "Raise"}

\* "Find first aggressor": its 1-based index in activePositions, 0 for null
FirstAggressorIndex(activePositions, positionActions) ==
    IF \E i \in 1..Len(activePositions) : IsBetOrRaise(positionActions, activePositions[i])
    THEN CHOOSE i \in 1..Len(activePositions) :
             /\ IsBetOrRaise(positionActions, activePositions[i])
             /\ \A j \in 1..(i - 1) : ~IsBetOrRaise(positionActions, activePositions[j])
    ELSE 0

\* mutant of LaterHasAction: silence always reads as a check
LaterHasAction_Always(activePositions, positionActions, i) == TRUE

\* `activePositions.slice(i + 1).some(p => positionActions.has(p))`
LaterHasAction(activePositions, positionActions, i) ==
    \E j \in (i + 1)..Len(activePositions) : activePositions[j] \in DOMAIN positionActions

\* "First orbit: checks until aggressor", from activePositions[i] on
RECURSIVE PostflopFirstOrbit(_, _, _, _, _, _)
PostflopFirstOrbit(i, actions, activePositions, positionActions, heroPos, agg) ==
    IF i > Len(activePositions) THEN actions
    ELSE LET position == activePositions[i] IN
         IF position = heroPos /\ heroPos \notin DOMAIN positionActions THEN actions
         ELSE IF position \in DOMAIN positionActions
         THEN LET data == positionActions[position] IN
              IF data.action \in {"Bet", "Raise"}
              THEN Append(actions, Ev(position, data.action, data.amount))
              ELSE IF data.action = "Check"
              THEN PostflopFirstOrbit(i + 1,
                       Append(actions, Ev(position, data.action, data.amount)),
                       activePositions, positionActions, heroPos, agg)
              ELSE IF data.action \in {"Call", "Fold"} /\ agg # 0 /\ i < agg
              THEN PostflopFirstOrbit(i + 1, Append(actions, Ev(position, "Check", 0)),
                       activePositions, positionActions, heroPos, agg)
              ELSE PostflopFirstOrbit(i + 1, actions,
                       activePositions, positionActions, heroPos, agg)
         ELSE IF LaterHasAction(activePositions, positionActions, i)
         THEN PostflopFirstOrbit(i + 1, Append(actions, Ev(position, "Check", 0)),
                  activePositions, positionActions, heroPos, agg)
         ELSE PostflopFirstOrbit(i + 1, actions,
                  activePositions, positionActions, heroPos, agg)

\* mutant of InferredCall: silence after the bet read as a fold
InferredCall_Fold(position, lastBetAmount) == Ev(position, "Fold", 0)

\* the event inferred for a seat after the aggressor that has no entry
InferredCall(position, lastBetAmount) == Ev(position, "Call", lastBetAmount)

\* "Positions after aggressor", from activePositions[i] on
RECURSIVE PostflopAfterAggressor(_, _, _, _, _, _)
PostflopAfterAggressor(i, acc, activePositions, positionActions, heroPos, lastBetAmount) ==
    IF i > Len(activePositions) THEN acc
    ELSE LET position == activePositions[i] IN
         IF position = heroPos /\ heroPos \notin DOMAIN positionActions THEN acc
         ELSE LET data == positionActions[position]
                  next ==
                      IF position \in DOMAIN positionActions
                      THEN IF data.action \in {"Call", "Fold", "Raise"}
                           THEN [actions |-> Append(acc.actions,
                                                Ev(position, data.action, data.amount)),
                                 newFolded |-> IF data.action = "Fold"
                                               THEN acc.newFolded \cup {position}
                                               ELSE acc.newFolded]
                           ELSE acc
                      ELSE [actions |-> Append(acc.actions,
                                            InferredCall(position, lastBetAmount)),
                            newFolded |-> acc.newFolded]
              IN IF position = heroPos THEN next
                 ELSE PostflopAfterAggressor(i + 1, next, activePositions, positionActions,
                          heroPos, lastBetAmount)

\* mutant of PostflopBeforeAggressor: the seats before the aggressor never respond
PostflopBeforeAggressor_Silent(i, acc, activePositions, positionActions, secondActions, heroPos, agg) ==
    acc

\* mutant of PostflopBeforeAggressor: the first-orbit entry is consulted
\* before the second-orbit one
RECURSIVE PostflopBeforeAggressor_FirstOrbitFirst(_, _, _, _, _, _, _)
PostflopBeforeAggressor_FirstOrbitFirst(i, acc, activePositions, positionActions, secondActions, heroPos, agg) ==
    IF i >= agg THEN acc
    ELSE LET position == activePositions[i] IN
         IF /\ position = heroPos
            /\ heroPos \notin DOMAIN secondActions
            /\ ~(heroPos \in DOMAIN positionActions /\ positionActions[heroPos].action = "Call")
         THEN acc
         ELSE LET secondData == secondActions[position]
                  data == positionActions[position]
                  next ==
                      IF /\ position \in DOMAIN positionActions
                         /\ data.action \in {"Call", "Fold", "Raise"}
                      THEN [actions |-> Append(acc.actions,
                                           Ev(position, data.action, data.amount)),
                            newFolded |-> IF data.action = "Fold"
                                          THEN acc.newFolded \cup {position}
                                          ELSE acc.newFolded]
                      ELSE IF position \in DOMAIN secondActions
                      THEN [actions |-> Append(acc.actions,
                                           Ev(position, secondData.action, secondData.amount)),
                            newFolded |-> IF secondData.action = "Fold"
                                          THEN acc.newFolded \cup {position}
                                          ELSE acc.newFolded]
                      ELSE acc
              IN IF position = heroPos THEN next
                 ELSE PostflopBeforeAggressor_FirstOrbitFirst(i + 1, next, activePositions,
                          positionActions, secondActions, heroPos, agg)

\* "Positions before aggressor (checked, now respond)", from activePositions[i] on
RECURSIVE PostflopBeforeAggressor(_, _, _, _, _, _, _)
PostflopBeforeAggressor(i, acc, activePositions, positionActions, secondActions, heroPos, agg) ==
    IF i >= agg THEN acc
    ELSE LET position == activePositions[i] IN
         IF /\ position = heroPos
            /\ heroPos \notin DOMAIN secondActions
            /\ ~(heroPos \in DOMAIN positionActions /\ positionActions[heroPos].action = "Call")
         THEN acc
         ELSE LET secondData == secondActions[position]
                  data == positionActions[position]
                  next ==
                      IF position \in DOMAIN secondActions
                      THEN [actions |-> Append(acc.actions,
                                           Ev(position, secondData.action, secondData.amount)),
                            newFolded |-> IF secondData.action = "Fold"
                                          THEN acc.newFolded \cup {position}
                                          ELSE acc.newFolded]
                      ELSE IF /\ position \in DOMAIN positionActions
                              /\ data.action \in {"Call", "Fold", "Raise"}
                      THEN [actions |-> Append(acc.actions,
                                           Ev(position, data.action, data.amount)),
                            newFolded |-> IF data.action = "Fold"
                                          THEN acc.newFolded \cup {position}
                                          ELSE acc.newFolded]
                      ELSE acc
              IN IF position = heroPos THEN next
                 ELSE PostflopBeforeAggressor(i + 1, next, activePositions, positionActions,
                          secondActions, heroPos, agg)

\* mutant of buildPostflopActions: the responses are walked without an aggressor
buildPostflopActions_NoAggressorGuard(streetData, heroPos, folded) ==
    LET d == PostflopDecoded(streetData)
        activePositions == ActivePositions(folded)
        agg == FirstAggressorIndex(activePositions, d.pa)
        first == PostflopFirstOrbit(1, <<>>, activePositions, d.pa, heroPos, agg)
        a0 == [actions |-> first, newFolded |-> {}]
    IN PostflopBeforeAggressor(1,
           PostflopAfterAggressor(agg + 1, a0, activePositions, d.pa, heroPos, d.last),
           activePositions, d.pa, d.sa, heroPos, agg)

\* mutant of buildPostflopActions: the seats before the aggressor respond
\* before the seats after it
buildPostflopActions_BeforeFirst(streetData, heroPos, folded) ==
    LET d == PostflopDecoded(streetData)
        activePositions == ActivePositions(folded)
        agg == FirstAggressorIndex(activePositions, d.pa)
        first == PostflopFirstOrbit(1, <<>>, activePositions, d.pa, heroPos, agg)
        a0 == [actions |-> first, newFolded |-> {}]
    IN IF agg # 0
       THEN PostflopAfterAggressor(agg + 1,
                PostflopBeforeAggressor(1, a0, activePositions, d.pa, d.sa, heroPos, agg),
                activePositions, d.pa, heroPos, d.last)
       ELSE a0

buildPostflopActions(streetData, heroPos, folded) ==
    LET d == PostflopDecoded(streetData)
        activePositions == ActivePositions(folded)
        agg == FirstAggressorIndex(activePositions, d.pa)
        first == PostflopFirstOrbit(1, <<>>, activePositions, d.pa, heroPos, agg)
        a0 == [actions |-> first, newFolded |-> {}]
    IN IF agg # 0
       THEN PostflopBeforeAggressor(1,
                PostflopAfterAggressor(agg + 1, a0, activePositions, d.pa, heroPos, d.last),
                activePositions, d.pa, d.sa, heroPos, agg)
       ELSE a0

-----------------------------------------------------------------------------
(* buildActionQueue, one step per street.                                  *)

\* the `streets` array of buildActionQueue
streets ==
    <<[key |-> "flop", expectedCardLen |-> 6],
      [key |-> "turn", expectedCardLen |-> 2],
      [key |-> "river", expectedCardLen |-> 2]>>

StreetNames == <<"preflop", "flop", "turn", "river">>

\* the position after the street named s
After(s) ==
    CASE s = "preflop" -> "flop"
      [] s = "flop" -> "turn"
      [] s = "turn" -> "river"
      [] OTHER -> "done"

\* a street is processed when its data is truthy and an object
Present(streetData) == Truthy(streetData) /\ TypeOf(streetData) = "object"

\* mutant of MergeFolded: the running set is replaced by the street's folds
MergeFolded_Replace(folded, newFolded) == newFolded

\* `for (const p of newFolded) foldedPositions.add(p)`
MergeFolded(folded, newFolded) == folded \cup newFolded

\* mutant of StreetEvents: the Board event is pushed after the street's actions
StreetEvents_BoardLast(streetData, expectedCardLen, heroPos, folded) ==
    LET cards == extractBoardCards(streetData, expectedCardLen)
        board == IF Truthy(cards) THEN <<BoardEv(cards.s)>> ELSE <<>>
    IN buildPostflopActions(streetData, heroPos, folded).actions \o board

\* the events a postflop street appends: its Board event, if cards are found,
\* then its action events
StreetEvents(streetData, expectedCardLen, heroPos, folded) ==
    LET cards == extractBoardCards(streetData, expectedCardLen)
        board == IF Truthy(cards) THEN <<BoardEv(cards.s)>> ELSE <<>>
    IN board \o buildPostflopActions(streetData, heroPos, folded).actions

\* lines 416-423: the locals and the preflop street
RunPreflop ==
    /\ pc = "preflop"
    /\ LET preflop == Get(action, "preflop") IN
       IF Present(preflop)
       THEN LET r == buildPreflopActions(preflop, hero) IN
            /\ queue' = queue \o r.actions
            /\ foldedPositions' = r.folded
       ELSE UNCHANGED <<queue, foldedPositions>>
    /\ ends' = Append(ends, [len |-> Len(queue'), folded |-> foldedPositions'])
    /\ pc' = "flop"
    /\ UNCHANGED <<action, hero, calls, firstCall>>
    /\ UNCHANGED inviteVars
    /\ UNCHANGED webVars

\* mutant of StreetStep: a skipped street clears the running folded set
StreetStep_ResetOnSkip(streetData, expectedCardLen, heroPos, q, folded) ==
    IF ~Present(streetData)
    THEN [queue |-> q, folded |-> {}]
    ELSE [queue |-> q \o StreetEvents(streetData, expectedCardLen, heroPos, folded),
          folded |-> MergeFolded(folded,
                         buildPostflopActions(streetData, heroPos, folded).newFolded)]

\* the body of the loop over `streets` for one street: the queue and the
\* running folded set after it (`continue` leaves both as they are)
StreetStep(streetData, expectedCardLen, heroPos, q, folded) ==
    IF ~Present(streetData)
    THEN [queue |-> q, folded |-> folded]
    ELSE [queue |-> q \o StreetEvents(streetData, expectedCardLen, heroPos, folded),
          folded |-> MergeFolded(folded,
                         buildPostflopActions(streetData, heroPos, folded).newFolded)]

\* buildActionQueue as one function: the preflop, then the three streets
buildActionQueue(act, heroPos) ==
    LET preflop == Get(act, "preflop")
        p == IF Present(preflop)
             THEN LET r == buildPreflopActions(preflop, heroPos)
                  IN [queue |-> r.actions, folded |-> r.folded]
             ELSE [queue |-> <<>>, folded |-> {}]
        f == StreetStep(Get(act, "flop"), streets[1].expectedCardLen, heroPos, p.queue, p.folded)
        t == StreetStep(Get(act, "turn"), streets[2].expectedCardLen, heroPos, f.queue, f.folded)
        r == StreetStep(Get(act, "river"), streets[3].expectedCardLen, heroPos, t.queue, t.folded)
    IN r.queue

\* lines 431-443: one iteration of the loop over `streets`
RunStreet ==
    /\ pc \in {"flop", "turn", "river"}
    /\ LET st == streets[CHOOSE i \in 1..Len(streets) : streets[i].key = pc]
           r == StreetStep(Get(action, st.key), st.expectedCardLen, hero, queue, foldedPositions)
       IN /\ queue' = r.queue
          /\ foldedPositions' = r.folded
    /\ ends' = Append(ends, [len |-> Len(queue'), folded |-> foldedPositions'])
    /\ pc' = After(pc)
    /\ UNCHANGED <<action, hero, calls, firstCall>>
    /\ UNCHANGED inviteVars
    /\ UNCHANGED webVars

-----------------------------------------------------------------------------
(* The private copy of the action queue builder in the challenge page's    *)
(* handler, daily10/challenge/[id].ts: its constants and functions,        *)
(* translated from that file.  The emitted events have the one shape of    *)
(* HandAction, which both files declare alike.                             *)

Challenge_PREFLOP_ORDER == <<"UTG", "HJ", "CO", "BTN", "SB", "BB">>

Challenge_POSTFLOP_ORDER == <<"SB", "BB", "UTG", "HJ", "CO", "BTN">>

Challenge_ALL_POSITIONS == {"SB", "BB", "UTG", "HJ", "CO", "BTN"}

Challenge_SB_POST == 1

Challenge_BB_POST == 2

\* /^[345]-?[Bb]et$/i
Challenge_MatchesNBet(label) ==
    LET n == Len(label) IN
    /\ n \in {4, 5}
    /\ SubSeq(label, 1, 1) \in {"3", "4", "5"}
    /\ (n = 5 => SubSeq(label, 2, 2) = "-")
    /\ SubSeq(label, n - 2, n - 2) \in {"B", "b"}
    /\ SubSeq(label, n - 1, n - 1) \in {"E", "e"}
    /\ SubSeq(label, n, n) \in {"T", "t"}

Challenge_normalizeAction_Verbatim(label) == label

Challenge_normalizeAction(label) ==
    IF Challenge_MatchesNBet(label) \/ label \in {"3Bet", "3bet", "4Bet", "4bet", "5Bet", "5bet"}
    THEN "Raise"
    ELSE label

\* ok = FALSE stands for the code's null
Challenge_parsePositionKey(key) ==
    IF key \in Challenge_ALL_POSITIONS
    THEN [ok |-> TRUE, position |-> key, isSecondAction |-> FALSE]
    ELSE IF \E pos \in Challenge_ALL_POSITIONS : StartsWith(key, pos \o "_")
    THEN [ok |-> TRUE,
          position |-> CHOOSE pos \in Challenge_ALL_POSITIONS : StartsWith(key, pos \o "_"),
          isSecondAction |-> TRUE]
    ELSE [ok |-> FALSE, position |-> "", isSecondAction |-> FALSE]

\* the scan of Object.values(streetData) from index i on
RECURSIVE Challenge_ScanNestedCards(_, _, _)
Challenge_ScanNestedCards(entries, i, expectedLength) ==
    IF i > Len(entries) THEN JSNull
    ELSE LET value == entries[i].v IN
         IF /\ Truthy(value)
            /\ TypeOf(value) = "object"
            /\ TypeOf(Get(value, "Cards")) = "string"
            /\ Len(Get(value, "Cards").s) >= expectedLength
         THEN Get(value, "Cards")
         ELSE Challenge_ScanNestedCards(entries, i + 1, expectedLength)

Challenge_extractBoardCards(streetData, expectedLength) ==
    IF TypeOf(Get(streetData, "Cards")) = "string" /\ Len(Get(streetData, "Cards").s) > 0
    THEN Get(streetData, "Cards")
    ELSE Challenge_ScanNestedCards(streetData.e, 1, expectedLength)

\* the entry is skipped by the decoding loops
Challenge_Malformed(value) ==
    \/ ~Truthy(value)
    \/ TypeOf(value) # "object"
    \/ TypeOf(Get(value, "Action")) # "string"

Challenge_AmountOf(value) ==
    IF TypeOf(Get(value, "Amount")) = "number" THEN Get(value, "Amount").n ELSE 0

\* "Infer call amounts": a Call of amount 0 takes the last amount
Challenge_InferCalls(m, last) ==
    [p \in DOMAIN m |->
        IF m[p].action = "Call" /\ m[p].amount = 0 THEN ActionPair("Call", last) ELSE m[p]]

\* the decoding loop over Object.entries(preflop), from entry i on;
\* st = [pa: positionActions, sa: secondActions, last: lastRaiseAmount]
RECURSIVE Challenge_PreflopParse(_, _, _)
Challenge_PreflopParse(entries, i, st) ==
    IF i > Len(entries) THEN st
    ELSE LET parsed == Challenge_parsePositionKey(entries[i].k)
             value == entries[i].v
         IN
         IF ~parsed.ok \/ Challenge_Malformed(value) THEN Challenge_PreflopParse(entries, i + 1, st)
         ELSE LET amount == Challenge_AmountOf(value)
                  normalized == Challenge_normalizeAction(Get(value, "Action").s)
                  last == IF normalized = "Raise" /\ amount > 0 THEN amount ELSE st.last
                  pair == ActionPair(normalized, amount)
              IN
              IF parsed.isSecondAction
              THEN Challenge_PreflopParse(entries, i + 1,
                       [pa |-> st.pa, sa |-> MapSet(st.sa, parsed.position, pair), last |-> last])
              ELSE Challenge_PreflopParse(entries, i + 1,
                       [pa |-> MapSet(st.pa, parsed.position, pair), sa |-> st.sa, last |-> last])

\* whether a seat before the hero with no entry gets an inferred Fold:
\* always outside the blinds, in the blinds only when the pot is raised
Challenge_InfersFold(position, hasRaise) ==
    IF position # "SB" /\ position # "BB" THEN TRUE ELSE hasRaise

\* "First orbit - positions before hero", from PREFLOP_ORDER[i] on
RECURSIVE Challenge_PreflopBeforeHero(_, _, _, _, _)
Challenge_PreflopBeforeHero(i, acc, positionActions, heroPos, hasRaise) ==
    IF i > Len(Challenge_PREFLOP_ORDER) THEN acc
    ELSE LET position == Challenge_PREFLOP_ORDER[i] IN
         IF position = heroPos THEN acc
         ELSE IF position \in DOMAIN positionActions
         THEN LET data == positionActions[position] IN
              Challenge_PreflopBeforeHero(i + 1,
                  [actions |-> Append(acc.actions, Ev(position, data.action, data.amount)),
                   folded |-> IF data.action = "Fold" THEN acc.folded \cup {position}
                              ELSE acc.folded],
                  positionActions, heroPos, hasRaise)
         ELSE IF Challenge_InfersFold(position, hasRaise)
         THEN Challenge_PreflopBeforeHero(i + 1,
                  [actions |-> Append(acc.actions, Ev(position, "Fold", 0)),
                   folded |-> acc.folded \cup {position}],
                  positionActions, heroPos, hasRaise)
         ELSE Challenge_PreflopBeforeHero(i + 1, acc, positionActions, heroPos, hasRaise)

\* "Hero's action"
Challenge_PreflopHero(acc, positionActions, heroPos) ==
    IF heroPos \in DOMAIN positionActions
    THEN [actions |-> Append(acc.actions,
                         Ev(heroPos, positionActions[heroPos].action,
                            positionActions[heroPos].amount)),
          folded |-> acc.folded]
    ELSE acc

\* "Positions after hero", from PREFLOP_ORDER[i] on
RECURSIVE Challenge_PreflopAfterHero(_, _, _)
Challenge_PreflopAfterHero(i, acc, positionActions) ==
    IF i > Len(Challenge_PREFLOP_ORDER) THEN acc
    ELSE LET position == Challenge_PREFLOP_ORDER[i] IN
         IF position \in acc.folded THEN Challenge_PreflopAfterHero(i + 1, acc, positionActions)
         ELSE IF position \in DOMAIN positionActions
         THEN LET data == positionActions[position] IN
              Challenge_PreflopAfterHero(i + 1,
                  [actions |-> Append(acc.actions, Ev(position, data.action, data.amount)),
                   folded |-> IF data.action = "Fold" THEN acc.folded \cup {position}
                              ELSE acc.folded],
                  positionActions)
         ELSE Challenge_PreflopAfterHero(i + 1,
                  [actions |-> Append(acc.actions, Ev(position, "Fold", 0)),
                   folded |-> acc.folded \cup {position}],
                  positionActions)

\* "Track raises for second orbit": originalRaiser is a set, empty for null
Challenge_TrackRaises(positionActions, lastRaiseAmount) ==
    LET raisers == SelectSeq(Challenge_PREFLOP_ORDER,
                       LAMBDA p : p \in DOMAIN positionActions
                                  /\ positionActions[p].action = "Raise")
    IN [originalRaiser |-> IF Len(raisers) > 0 THEN {raisers[1]} ELSE {},
        finalRaiseAmount |-> IF Len(raisers) > 0
                             THEN positionActions[raisers[Len(raisers)]].amount
                             ELSE lastRaiseAmount,
        raiseCount |-> Len(raisers)]

\* "Second orbit", from PREFLOP_ORDER[i] on
RECURSIVE Challenge_PreflopSecondOrbit(_, _, _, _, _)
Challenge_PreflopSecondOrbit(i, acc, secondActions, heroPos, tr) ==
    IF i > Len(Challenge_PREFLOP_ORDER) THEN acc
    ELSE LET position == Challenge_PREFLOP_ORDER[i] IN
         IF position \in acc.folded
         THEN Challenge_PreflopSecondOrbit(i + 1, acc, secondActions, heroPos, tr)
         ELSE IF position = heroPos
         THEN IF heroPos \in DOMAIN secondActions
              THEN [actions |-> Append(acc.actions,
                                   Ev(heroPos, secondActions[heroPos].action,
                                      secondActions[heroPos].amount)),
                    folded |-> acc.folded]
              ELSE IF tr.raiseCount > 1 /\ heroPos \in tr.originalRaiser
                      /\ heroPos \notin acc.folded
              THEN [actions |-> Append(acc.actions, Ev(heroPos, "Call", tr.finalRaiseAmount)),
                    folded |-> acc.folded]
              ELSE acc
         ELSE IF position \in DOMAIN secondActions
         THEN LET data == secondActions[position] IN
              Challenge_PreflopSecondOrbit(i + 1,
                  [actions |-> Append(acc.actions, Ev(position, data.action, data.amount)),
                   folded |-> IF data.action = "Fold" THEN acc.folded \cup {position}
                              ELSE acc.folded],
                  secondActions, heroPos, tr)
         ELSE IF tr.raiseCount > 1 /\ position \in tr.originalRaiser
                 /\ position \notin acc.folded
         THEN Challenge_PreflopSecondOrbit(i + 1,
                  [actions |-> Append(acc.actions, Ev(position, "Call", tr.finalRaiseAmount)),
                   folded |-> acc.folded],
                  secondActions, heroPos, tr)
         ELSE Challenge_PreflopSecondOrbit(i + 1, acc, secondActions, heroPos, tr)

\* the two forced posts the preflop list starts with
Challenge_BlindPosts == <<Ev("SB", "Post", Challenge_SB_POST), Ev("BB", "Post", Challenge_BB_POST)>>

\* the decoded preflop street: both maps after call inference, and lastRaiseAmount
Challenge_PreflopDecoded(preflop) ==
    LET st == Challenge_PreflopParse(preflop.e, 1, [pa |-> <<>>, sa |-> <<>>, last |-> Challenge_BB_POST])
    IN [pa |-> Challenge_InferCalls(st.pa, st.last), sa |-> Challenge_InferCalls(st.sa, st.last), last |-> st.last]

Challenge_buildPreflopActions(preflop, heroPos) ==
    LET d == Challenge_PreflopDecoded(preflop)
        hasRaise == \E p \in DOMAIN d.pa : d.pa[p].action = "Raise"
        a0 == [actions |-> Challenge_BlindPosts, folded |-> {}]
        a1 == Challenge_PreflopBeforeHero(1, a0, d.pa, heroPos, hasRaise)
        a2 == Challenge_PreflopHero(a1, d.pa, heroPos)
        a3 == Challenge_PreflopAfterHero(IndexOf(Challenge_PREFLOP_ORDER, heroPos) + 1, a2, d.pa)
        tr == Challenge_TrackRaises(d.pa, d.last)
    IN Challenge_PreflopSecondOrbit(1, a3, d.sa, heroPos, tr)

\* the decoding loop over Object.entries(streetData), from entry i on;
\* st = [pa: positionActions, sa: secondActions, last: lastBetAmount]
RECURSIVE Challenge_PostflopParse(_, _, _)
Challenge_PostflopParse(entries, i, st) ==
    IF i > Len(entries) THEN st
    ELSE LET parsed == Challenge_parsePositionKey(entries[i].k)
             value == entries[i].v
         IN
         IF ~parsed.ok \/ Challenge_Malformed(value) THEN Challenge_PostflopParse(entries, i + 1, st)
         ELSE LET amount == Challenge_AmountOf(value)
                  normalized == Challenge_normalizeAction(Get(value, "Action").s)
                  last == IF (normalized = "Bet" \/ normalized = "Raise") /\ amount > 0
                          THEN amount ELSE st.last
                  pair == ActionPair(normalized, amount)
              IN
              IF parsed.isSecondAction
              THEN Challenge_PostflopParse(entries, i + 1,
                       [pa |-> st.pa, sa |-> MapSet(st.sa, parsed.position, pair), last |-> last])
              ELSE Challenge_PostflopParse(entries, i + 1,
                       [pa |-> MapSet(st.pa, parsed.position, pair), sa |-> st.sa, last |-> last])

\* the decoded postflop street: both maps after call inference, and lastBetAmount
Challenge_PostflopDecoded(streetData) ==
    LET st == Challenge_PostflopParse(streetData.e, 1, [pa |-> <<>>, sa |-> <<>>, last |-> 0])
    IN IF st.last > 0
       THEN [pa |-> Challenge_InferCalls(st.pa, st.last), sa |-> Challenge_InferCalls(st.sa, st.last),
             last |-> st.last]
       ELSE st

\* POSTFLOP_ORDER.filter(p => !foldedPositions.has(p))
Challenge_ActivePositions(folded) ==
    SelectSeq(Challenge_POSTFLOP_ORDER, LAMBDA p : p \notin folded)

Challenge_IsBetOrRaise(positionActions, position) ==
    /\ position \in DOMAIN positionActions
    /\ positionActions[position].action \in {"Bet", "Raise"}

\* "Find first aggressor": its 1-based index in activePositions, 0 for null
Challenge_FirstAggressorIndex(activePositions, positionActions) ==
    IF \E i \in 1..Len(activePositions) : Challenge_IsBetOrRaise(positionActions, activePositions[i])
    THEN CHOOSE i \in 1..Len(activePositions) :
             /\ Challenge_IsBetOrRaise(positionActions, activePositions[i])
             /\ \A j \in 1..(i - 1) : ~Challenge_IsBetOrRaise(positionActions, activePositions[j])
    ELSE 0

\* `activePositions.slice(i + 1).some(p => positionActions.has(p))`
Challenge_LaterHasAction(activePositions, positionActions, i) ==
    \E j \in (i + 1)..Len(activePositions) : activePositions[j] \in DOMAIN positionActions

\* "First orbit: checks until aggressor", from activePositions[i] on
RECURSIVE Challenge_PostflopFirstOrbit(_, _, _, _, _, _)
Challenge_PostflopFirstOrbit(i, actions, activePositions, positionActions, heroPos, agg) ==
    IF i > Len(activePositions) THEN actions
    ELSE LET position == activePositions[i] IN
         IF position = heroPos /\ heroPos \notin DOMAIN positionActions THEN actions
         ELSE IF position \in DOMAIN positionActions
         THEN LET data == positionActions[position] IN
              IF data.action \in {"Bet", "Raise"}
              THEN Append(actions, Ev(position, data.action, data.amount))
              ELSE IF data.action = "Check"
              THEN Challenge_PostflopFirstOrbit(i + 1,
                       Append(actions, Ev(position, data.action, data.amount)),
                       activePositions, positionActions, heroPos, agg)
              ELSE IF data.action \in {"Call", "Fold"} /\ agg # 0 /\ i < agg
              THEN Challenge_PostflopFirstOrbit(i + 1, Append(actions, Ev(position, "Check", 0)),
                       activePositions, positionActions, heroPos, agg)
              ELSE Challenge_PostflopFirstOrbit(i + 1, actions,
                       activePositions, positionActions, heroPos, agg)
         ELSE IF Challenge_LaterHasAction(activePositions, positionActions, i)
         THEN Challenge_PostflopFirstOrbit(i + 1, Append(actions, Ev(position, "Check", 0)),
                  activePositions, positionActions, heroPos, agg)
         ELSE Challenge_PostflopFirstOrbit(i + 1, actions,
                  activePositions, positionActions, heroPos, agg)

\* the event inferred for a seat after the aggressor that has no entry
Challenge_InferredCall(position, lastBetAmount) == Ev(position, "Call", lastBetAmount)

\* "Positions after aggressor", from activePositions[i] on
RECURSIVE Challenge_PostflopAfterAggressor(_, _, _, _, _, _)
Challenge_PostflopAfterAggressor(i, acc, activePositions, positionActions, heroPos, lastBetAmount) ==
    IF i > Len(activePositions) THEN acc
    ELSE LET position == activePositions[i] IN
         IF position = heroPos /\ heroPos \notin DOMAIN positionActions THEN acc
         ELSE LET data == positionActions[position]
                  next ==
                      IF position \in DOMAIN positionActions
                      THEN IF data.action \in {"Call", "Fold", "Raise"}
                           THEN [actions |-> Append(acc.actions,
                                                Ev(position, data.action, data.amount)),
                                 newFolded |-> IF data.action = "Fold"
                                               THEN acc.newFolded \cup {position}
                                               ELSE acc.newFolded]
                           ELSE acc
                      ELSE [actions |-> Append(acc.actions,
                                            Challenge_InferredCall(position, lastBetAmount)),
                            newFolded |-> acc.newFolded]
              IN IF position = heroPos THEN next
                 ELSE Challenge_PostflopAfterAggressor(i + 1, next, activePositions, positionActions,
                          heroPos, lastBetAmount)

\* "Positions before aggressor (checked, now respond)", from activePositions[i] on
RECURSIVE Challenge_PostflopBeforeAggressor(_, _, _, _, _, _, _)
Challenge_PostflopBeforeAggressor(i, acc, activePositions, positionActions, secondActions, heroPos, agg) ==
    IF i >= agg THEN acc
    ELSE LET position == activePositions[i] IN
         IF /\ position = heroPos
            /\ heroPos \notin DOMAIN secondActions
            /\ ~(heroPos \in DOMAIN positionActions /\ positionActions[heroPos].action = "Call")
         THEN acc
         ELSE LET secondData == secondActions[position]
                  data == positionActions[position]
                  next ==
                      IF position \in DOMAIN secondActions
                      THEN [actions |-> Append(acc.actions,
                                           Ev(position, secondData.action, secondData.amount)),
                            newFolded |-> IF secondData.action = "Fold"
                                          THEN acc.newFolded \cup {position}
                                          ELSE acc.newFolded]
                      ELSE IF /\ position \in DOMAIN positionActions
                              /\ data.action \in {"Call", "Fold", "Raise"}
                      THEN [actions |-> Append(acc.actions,
                                           Ev(position, data.action, data.amount)),
                            newFolded |-> IF data.action = "Fold"
                                          THEN acc.newFolded \cup {position}
                                          ELSE acc.newFolded]
                      ELSE acc
              IN IF position = heroPos THEN next
                 ELSE Challenge_PostflopBeforeAggressor(i + 1, next, activePositions, positionActions,
                          secondActions, heroPos, agg)

Challenge_buildPostflopActions(streetData, heroPos, folded) ==
    LET d == Challenge_PostflopDecoded(streetData)
        activePositions == Challenge_ActivePositions(folded)
        agg == Challenge_FirstAggressorIndex(activePositions, d.pa)
        first == Challenge_PostflopFirstOrbit(1, <<>>, activePositions, d.pa, heroPos, agg)
        a0 == [actions |-> first, newFolded |-> {}]
    IN IF agg # 0
       THEN Challenge_PostflopBeforeAggressor(1,
                Challenge_PostflopAfterAggressor(agg + 1, a0, activePositions, d.pa, heroPos, d.last),
                activePositions, d.pa, d.sa, heroPos, agg)
       ELSE a0

\* the `streets` array of buildActionQueue
Challenge_streets ==
    <<[key |-> "flop", expectedCardLen |-> 6],
      [key |-> "turn", expectedCardLen |-> 2],
      [key |-> "river", expectedCardLen |-> 2]>>

\* a street is processed when its data is truthy and an object
Challenge_Present(streetData) == Truthy(streetData) /\ TypeOf(streetData) = "object"

\* `for (const p of newFolded) foldedPositions.add(p)`
Challenge_MergeFolded(folded, newFolded) == folded \cup newFolded

\* the events a postflop street appends: its Board event, if cards are found,
\* then its action events
Challenge_StreetEvents(streetData, expectedCardLen, heroPos, folded) ==
    LET cards == Challenge_extractBoardCards(streetData, expectedCardLen)
        board == IF Truthy(cards) THEN <<BoardEv(cards.s)>> ELSE <<>>
    IN board \o Challenge_buildPostflopActions(streetData, heroPos, folded).actions

\* the body of the loop over `streets` for one street: the queue and the
\* running folded set after it (`continue` leaves both as they are)
Challenge_StreetStep(streetData, expectedCardLen, heroPos, q, folded) ==
    IF ~Challenge_Present(streetData)
    THEN [queue |-> q, folded |-> folded]
    ELSE [queue |-> q \o Challenge_StreetEvents(streetData, expectedCardLen, heroPos, folded),
          folded |-> Challenge_MergeFolded(folded,
                         Challenge_buildPostflopActions(streetData, heroPos, folded).newFolded)]

\* the loop over `streets` from its i-th element on; st = [queue, folded]
RECURSIVE Challenge_RunStreets(_, _, _, _)
Challenge_RunStreets(act, heroPos, i, st) ==
    IF i > Len(Challenge_streets) THEN st
    ELSE Challenge_RunStreets(act, heroPos, i + 1,
             Challenge_StreetStep(Get(act, Challenge_streets[i].key),
                                  Challenge_streets[i].expectedCardLen, heroPos,
                                  st.queue, st.folded))

\* buildActionQueue: the preflop, then the loop over the three streets
Challenge_buildActionQueue(act, heroPos) ==
    LET preflop == Get(act, "preflop")
        p == IF Challenge_Present(preflop)
             THEN LET r == Challenge_buildPreflopActions(preflop, heroPos)
                  IN [queue |-> r.actions, folded |-> r.folded]
             ELSE [queue |-> <<>>, folded |-> {}]
    IN Challenge_RunStreets(act, heroPos, 1, p).queue

-----------------------------------------------------------------------------
(* The invite endpoints: values, requests and documents.                   *)

\* `expiresAt.setHours(expiresAt.getHours() + 1)`, in hours
HOUR == 1
\* `expiresAt.setDate(expiresAt.getDate() + 30)`, in hours
THIRTY_DAYS == 720

\* str.includes(sub)
Contains(str, sub) ==
    \E i \in 1..(Len(str) - Len(sub) + 1) : SubSeq(str, i, i + Len(sub) - 1) = sub

\* str.trim(), for the blanks a header list has
RECURSIVE Trim(_)
Trim(str) ==
    IF Len(str) > 0 /\ SubSeq(str, 1, 1) = " " THEN Trim(SubSeq(str, 2, Len(str)))
    ELSE IF Len(str) > 0 /\ SubSeq(str, Len(str), Len(str)) = " "
    THEN Trim(SubSeq(str, 1, Len(str) - 1))
    ELSE str

\* str.split(",")[0]
FirstField(str) ==
    IF Contains(str, ",")
    THEN SubSeq(str, 1, (CHOOSE i \in 1..Len(str) :
                            /\ SubSeq(str, i, i) = ","
                            /\ \A j \in 1..(i - 1) : SubSeq(str, j, j) # ",") - 1)
    ELSE str

\* the request's x-forwarded-for and x-real-ip headers, undefined when not sent
getClientIP(xForwardedFor, xRealIP) ==
    IF TypeOf(xForwardedFor) = "string" THEN JSStr(Trim(FirstField(xForwardedFor.s)))
    ELSE IF TypeOf(xRealIP) = "string" THEN xRealIP
    ELSE JSNull

parseClientIP(rawIP) ==
    IF ~Truthy(rawIP) THEN [ipv4 |-> JSNull, ipv6 |-> JSNull]
    ELSE IF StartsWith(rawIP.s, "::ffff:")
    THEN [ipv4 |-> JSStr(SubSeq(rawIP.s, Len("::ffff:") + 1, Len(rawIP.s))), ipv6 |-> JSNull]
    ELSE IF Contains(rawIP.s, ":") THEN [ipv4 |-> JSNull, ipv6 |-> rawIP]
    ELSE [ipv4 |-> rawIP, ipv6 |-> JSNull]

Digits == {"0", "1", "2", "3", "4", "5", "6", "7", "8", "9"}

\* the digits of str from index i on: the group (\d+)
RECURSIVE DigitRun(_, _)
DigitRun(str, i) ==
    IF i <= Len(str) /\ SubSeq(str, i, i) \in Digits
    THEN SubSeq(str, i, i) \o DigitRun(str, i + 1)
    ELSE ""

\* where /(?:iPhone|iPad|iPod).*?OS (\d+)/ can place its "OS ": after a
\* device word and before a digit
IOSMatches(userAgent) ==
    {q \in 1..Len(userAgent) :
        /\ q + 3 <= Len(userAgent)
        /\ SubSeq(userAgent, q, q + 2) = "OS "
        /\ SubSeq(userAgent, q + 3, q + 3) \in Digits
        /\ \E word \in {"iPhone", "iPad", "iPod"} : \E p \in 1..q :
               p + Len(word) <= q /\ SubSeq(userAgent, p, p + Len(word) - 1) = word}

\* The patterns are matched as written; the user agents of the model are in
\* the usual casing, for which the /i flag makes no difference.
parseUserAgent(userAgent) ==
    [iosMajorVersion |->
         IF IOSMatches(userAgent) # {}
         THEN JSStr(DigitRun(userAgent,
                  3 + CHOOSE q \in IOSMatches(userAgent) : \A r \in IOSMatches(userAgent) : q <= r))
         ELSE JSNull,
     deviceType |->
         IF Contains(userAgent, "iPhone") THEN JSStr("iPhone")
         ELSE IF Contains(userAgent, "iPad") THEN JSStr("iPad")
         ELSE IF Contains(userAgent, "iPod") THEN JSStr("iPod")
         ELSE IF Contains(userAgent, "Android") THEN JSStr("Android")
         ELSE IF Contains(userAgent, "Mac") THEN JSStr("Mac")
         ELSE IF Contains(userAgent, "Windows") THEN JSStr("Windows")
         ELSE JSNull]

\* the collection users: uid and username
Users == {"u1", "u2"}
UsernameOf(uid) == IF uid = "u1" THEN "alice" ELSE "bob"

\* randomUUID(): the n-th token handed out
Token(n) == "token-" \o <<"1", "2", "3", "4", "5", "6", "7", "8", "9">>[n]

\* the document GET /invite/:username writes
InviteClaim(token, inviterUsername, inviterUserId, time, userAgent, rawIP) ==
    [token |-> JSStr(token),
     inviterUsername |-> JSStr(inviterUsername),
     inviterUserId |-> JSStr(inviterUserId),
     source |-> JSStr("web"),
     createdAt |-> JSNum(time),
     expiresAt |-> JSNum(time + HOUR),
     status |-> JSStr("pending"),
     redeemedByUserId |-> JSNull,
     redeemedAt |-> JSNull,
     redeemerIPv4 |-> parseClientIP(rawIP).ipv4,
     redeemerIPv6 |-> parseClientIP(rawIP).ipv6,
     redeemerUserAgent |-> IF userAgent # "" THEN JSStr(userAgent) ELSE JSNull,
     redeemerIOSMajorVersion |-> parseUserAgent(userAgent).iosMajorVersion,
     redeemerDeviceType |-> parseUserAgent(userAgent).deviceType]

\* the document POST /api/invite/create-pending-invite writes
PendingInvite(token, inviterUid, time) ==
    [token |-> JSStr(token),
     inviterUid |-> JSStr(inviterUid),
     inviterUsername |-> JSStr(UsernameOf(inviterUid)),
     createdAt |-> JSNum(time),
     expiresAt |-> JSNum(time + THIRTY_DAYS),
     redeemed |-> JSFalse,
     redeemedBy |-> JSNull,
     redeemedAt |-> JSNull,
     source |-> JSStr("app")]

\* the document POST /api/invite/redeem adds; id stands for the generated id
RedeemedInvite(id, userId, inviterId, time) ==
    [id |-> id, userId |-> JSStr(userId), inviterId |-> inviterId,
     redeemedAt |-> JSNum(time), source |-> JSStr("universal_link")]

\* Firestore filters: a document without the field matches no filter on it
WhereEq(doc, field, value) == field \in DOMAIN doc /\ doc[field] = value
WhereGt(doc, field, number) ==
    field \in DOMAIN doc /\ doc[field].t = "number" /\ doc[field].n > number

\* ref.update(changes) on the document of a collection with that token
Update(collection, token, changes) ==
    {IF doc.token = JSStr(token)
     THEN [f \in DOMAIN doc |-> IF f \in DOMAIN changes THEN changes[f] ELSE doc[f]]
     ELSE doc : doc \in collection}

\* what a claim-by-fingerprint request tells about the device: the client IP
\* of its headers and the deviceType and iosMajorVersion of its body
Fingerprint(clientIP, deviceType, iosMajorVersion) ==
    [ip |-> clientIP, deviceType |-> deviceType, iosMajorVersion |-> iosMajorVersion]
NoFingerprint == Fingerprint(JSUndefined, JSUndefined, JSUndefined)

\* a request between its read and its write
Pending(handler, user, token, inviterId, inviterUsername, fingerprint, authorization) ==
    [handler |-> handler, user |-> user, token |-> token, inviterId |-> inviterId,
     inviterUsername |-> inviterUsername, fingerprint |-> fingerprint,
     authorization |-> authorization]

\* a response: the handler, the caller, the HTTP status, and of the JSON
\* body success, the inviter's uid and the token; at is the time it was
\* sent, fingerprint what the request it answers told about the device,
\* authorization the Authorization header of that request, firestoreCalls
\* the number of Firestore calls (get, add, set, update) the handler made
\* for it
Response(handler, user, status, inviter, token, time, fingerprint, authorization, firestoreCalls) ==
    [handler |-> handler, user |-> user, status |-> status, success |-> status = 200,
     inviter |-> inviter, token |-> token, at |-> time, fingerprint |-> fingerprint,
     authorization |-> authorization, firestoreCalls |-> firestoreCalls]
NoResponse == Response("", "", 0, JSUndefined, JSUndefined, 0, NoFingerprint, JSUndefined, 0)

\* the ID token Firebase issued to a user, and getAuth().verifyIdToken: the
\* decoded token of an ID token Firebase issued, a throw for anything else
IdTokenOf(uid) == "id-" \o uid
verifyIdToken(idToken) ==
    IF \E uid \in Users : IdTokenOf(uid) = idToken
    THEN [ok |-> TRUE, uid |-> CHOOSE uid \in Users : IdTokenOf(uid) = idToken]
    ELSE [ok |-> FALSE, uid |-> ""]

\* mutant of Authenticate: the Bearer token is decoded without verification
Authenticate_Unverified(authHeader) ==
    IF authHeader.t = "string" /\ StartsWith(authHeader.s, "Bearer ")
    THEN [ok |-> TRUE, uid |-> "u1"]
    ELSE [ok |-> FALSE, uid |-> ""]

\* the authentication block of the POST handlers: ok is FALSE where the
\* handler returns 401, uid is decodedToken.uid
Authenticate(authHeader) ==
    IF ~(authHeader.t = "string" /\ StartsWith(authHeader.s, "Bearer "))
    THEN [ok |-> FALSE, uid |-> ""]
    ELSE verifyIdToken(SubSeq(authHeader.s, 8, Len(authHeader.s)))

\* no share request has been received and no replay page has been asked for
NoPage == [stage |-> "none"]
NoWebTraffic ==
    /\ sharedHands = {}
    /\ shareInflight = <<>>
    /\ shareResponses = <<>>
    /\ challengePage = NoPage
    /\ handPage = NoPage

\* no request has been received
NoInviteTraffic ==
    /\ now = 0
    /\ inviteClaims = {}
    /\ pendingInvites = {}
    /\ redeemedInvites = {}
    /\ inflight = <<>>
    /\ lastResp = NoResponse
    /\ requests = 0

-----------------------------------------------------------------------------
(* The hands the model is run on.                                          *)

MaxEntries == 2     \* entries of a generated street map
MaxAmount == 2      \* largest recorded amount, in half big blinds

Amounts == 1..MaxAmount

\* {Action: label} and {Action: label, Amount: a}
Entry(label) == JSObj(<<KV("Action", JSStr(label))>>)
EntryAmt(label, a) == JSObj(<<KV("Action", JSStr(label)), KV("Amount", JSNum(a))>>)

\* all key/value lists of at most n entries drawn from pairs, with distinct keys
Maps(pairs, n) ==
    UNION {{m \in [1..k -> pairs] : \A i, j \in 1..k : i # j => m[i].k # m[j].k} : k \in 0..n}

\* the action object with the given streets (an absent street has no entry)
Hand(streetEntries) == JSObj(streetEntries)

Heroes == ALL_POSITIONS \cup {""}

\* preflop maps over the first-orbit keys
PreflopPairs ==
    {KV(p, v) : p \in ALL_POSITIONS,
                v \in {Entry("Fold"), Entry("Call")} \cup {EntryAmt("Raise", a) : a \in Amounts}}

\* postflop maps over the seats left by SeedPreflop
PostflopPairs ==
    {KV(p, v) : p \in {"SB", "BB", "CO", "BTN"},
                v \in {Entry("Check"), Entry("Call"), Entry("Fold"),
                       EntryAmt("Raise", MaxAmount)}
                      \cup {EntryAmt("Bet", a) : a \in Amounts}}

SeedPreflop == JSObj(<<KV("CO", EntryAmt("Raise", 1)), KV("BTN", Entry("Call")),
                       KV("BB", Entry("Call"))>>)
SeedFlop == JSObj(<<KV("Cards", JSStr("AsKdQc")), KV("BB", EntryAmt("Bet", 1)),
                    KV("BTN", Entry("Fold"))>>)
SeedTurn == JSObj(<<KV("BB", Entry("Check")), KV("CO", EntryAmt("Bet", 2)),
                    KV("BTN", Entry("Call")), KV("UTG", JSObj(<<KV("Cards", JSStr("7h"))>>))>>)

SeedRiver == JSObj(<<KV("Cards", JSStr("2c")), KV("CO", Entry("Check"))>>)

\* the scenarios of the specification's section 8, amounts in half big blinds
ScenarioA == Hand(<<KV("preflop", JSObj(<<>>))>>)
ScenarioB ==
    Hand(<<KV("preflop", JSObj(<<KV("BTN", EntryAmt("Raise", 6)), KV("BB", Entry("Call"))>>))>>)
ScenarioC ==
    Hand(<<KV("preflop", JSObj(<<KV("UTG", EntryAmt("Raise", 6)), KV("BTN", EntryAmt("3Bet", 18)),
                                 KV("UTG_2", Entry("Call"))>>))>>)
ScenarioD ==
    Hand(<<KV("preflop", JSObj(<<KV("BTN", EntryAmt("Raise", 6)), KV("BB", Entry("Call"))>>)),
           KV("flop", JSObj(<<KV("BB", Entry("Check")), KV("BTN", EntryAmt("Bet", 10)),
                              KV("BB_2", Entry("Call"))>>))>>)

\* hands without a usable preflop street: `p.Action || {}`, a missing or
\* non-object preflop
NoPreflopHands ==
    {Hand(<<>>),
     Hand(<<KV("flop", SeedFlop)>>),
     Hand(<<KV("preflop", JSNull), KV("flop", SeedFlop), KV("turn", SeedTurn)>>),
     Hand(<<KV("preflop", JSStr("none")), KV("flop", SeedFlop)>>)}

FixedHands == {ScenarioA, ScenarioB, ScenarioC, ScenarioD} \cup NoPreflopHands

\* rich preflop, then a fixed flop and a turn that is not an object
PreflopHands ==
    {Hand(<<KV("preflop", JSObj(m)), KV("flop", SeedFlop), KV("turn", JSStr("n/a"))>>) :
        m \in Maps(PreflopPairs, MaxEntries)}

\* fixed preflop, rich flop, then a fixed turn and river
PostflopHands ==
    {Hand(<<KV("preflop", SeedPreflop), KV("flop", JSObj(m)),
            KV("turn", SeedTurn), KV("river", SeedRiver)>>) :
        m \in Maps(PostflopPairs, MaxEntries)}

\* an optional entry of an object literal: nothing when the value is undefined
Opt(key, value) == IF value = JSUndefined THEN <<>> ELSE <<KV(key, value)>>

EntryCards(label, cards) == JSObj(<<KV("Action", JSStr(label)), KV("Cards", JSStr(cards))>>)
OnlyCards(value) == JSObj(<<KV("Cards", value)>>)

\* where a street may carry cards: a street-level field (missing, empty,
\* short, long, not a string) and the entries of two seats
StreetLevelCards == {JSUndefined, JSStr(""), JSStr("As"), JSStr("AsKdQc"), JSNum(7)}
FlopNestedBB == {JSUndefined, EntryCards("Check", "AsKd"), EntryCards("Check", "7h8h9h")}
FlopNestedBTN == {JSUndefined, OnlyCards(JSStr("As")), OnlyCards(JSStr("2c3c4c5c")),
                  OnlyCards(JSNum(1))}
CardsTurns ==
    {JSObj(<<KV("Cards", JSStr("7h"))>>),
     JSObj(<<KV("BB", EntryCards("Check", "7"))>>),
     JSObj(<<KV("BB", EntryCards("Check", "7")), KV("Cards", JSStr("T"))>>),
     JSObj(<<KV("BB", Entry("Check")), KV("BTN", EntryCards("Check", "AsKd"))>>)}

\* fixed preflop, then a flop and a turn whose cards sit in varying places
CardsHands ==
    {Hand(<<KV("preflop", SeedPreflop),
            KV("flop", JSObj(Opt("Cards", c) \o Opt("BB", b) \o Opt("BTN", n))),
            KV("turn", t)>>) :
        c \in StreetLevelCards, b \in FlopNestedBB, n \in FlopNestedBTN, t \in CardsTurns}

\* what a street holds when it is not an object: nothing, null, a string, a number
NonObjects == {JSUndefined, JSNull, JSStr("n/a"), JSNum(1)}

\* fixed streets, each of flop, turn and river present or not an object
SkipHands ==
    {Hand(<<KV("preflop", SeedPreflop)>> \o Opt("flop", f) \o Opt("turn", t) \o Opt("river", r)) :
        f \in {SeedFlop} \cup NonObjects, t \in {SeedTurn} \cup NonObjects,
        r \in {SeedRiver} \cup NonObjects}

\* entries that no decoding loop counts: keys that are no position, values
\* that are no object or have no string Action
JunkEntries ==
    {KV("Cards", JSStr("AsKdQc")), KV("foo", EntryAmt("Raise", 2)), KV("btn", Entry("Fold")),
     KV("HJ", JSObj(<<KV("Amount", JSNum(2))>>)), KV("SB", JSStr("Fold")),
     KV("SB_2", JSObj(<<KV("Action", JSNum(1)), KV("Amount", JSNum(2))>>)),
     KV("UTG", JSNull)}
JunkFlop == JSObj(<<KV("BB", Entry("Check")), KV("CO", EntryAmt("Bet", 2)),
                    KV("BTN", Entry("Call"))>>)
\* the object o with at most one more entry, as its first or its last key
WithJunk(o) ==
    {o} \cup {JSObj(<<j>> \o o.e) : j \in JunkEntries}
        \cup {JSObj(o.e \o <<j>>) : j \in JunkEntries}

\* fixed streets, the preflop and the flop with at most one such entry each
JunkHands ==
    {Hand(<<KV("preflop", p), KV("flop", f), KV("turn", SeedTurn)>>) :
        p \in WithJunk(SeedPreflop), f \in WithJunk(JunkFlop)}

Hands ==
    FixedHands \cup PreflopHands \cup PostflopHands \cup CardsHands \cup SkipHands \cup JunkHands

NoCall == [action |-> JSUndefined, hero |-> "", queue |-> <<>>]

Init ==
    /\ action \in Hands
    /\ hero \in Heroes
    /\ pc = "preflop"
    /\ queue = <<>>
    /\ foldedPositions = {}
    /\ ends = <<>>
    /\ calls = 1
    /\ firstCall = NoCall
    /\ NoInviteTraffic
    /\ NoWebTraffic

Next == RunPreflop \/ RunStreet

Spec == Init /\ [][Next]_vars

-----------------------------------------------------------------------------
(* Repeated calls: buildActionQueue is called again, on any hand, after it *)
(* has returned.  Each call starts from its own fresh locals.              *)

MaxCalls == 3

\* `const queue: HandAction[] = []`
FreshQueue == <<>>

\* mutant of FreshFolded: the set of the previous call is used again
FreshFolded_Stale == foldedPositions

\* `let foldedPositions = new Set<string>()`
FreshFolded == {}

CallAgain ==
    /\ pc = "done"
    /\ calls < MaxCalls
    /\ firstCall' = IF calls = 1
                    THEN [action |-> action, hero |-> hero, queue |-> queue]
                    ELSE firstCall
    /\ action' \in FixedHands
    /\ hero' \in Heroes
    /\ queue' = FreshQueue
    /\ foldedPositions' = FreshFolded
    /\ ends' = <<>>
    /\ pc' = "preflop"
    /\ calls' = calls + 1
    /\ UNCHANGED inviteVars
    /\ UNCHANGED webVars

InitCalls ==
    /\ action \in FixedHands
    /\ hero \in Heroes
    /\ pc = "preflop"
    /\ queue = <<>>
    /\ foldedPositions = {}
    /\ ends = <<>>
    /\ calls = 1
    /\ firstCall = NoCall
    /\ NoInviteTraffic
    /\ NoWebTraffic

NextCalls == RunPreflop \/ RunStreet \/ CallAgain

SpecCalls == InitCalls /\ [][NextCalls]_vars

-----------------------------------------------------------------------------
(* Hands with reopened action: street maps that also hold suffixed keys,   *)
(* a second or a third entry of a seat, after their first-orbit entries.   *)

MaxReopened == 2    \* suffixed keys added to a street map

\* preflop streets by their first-orbit entries: raised twice with the hero
\* possibly the first raiser, a limper before two raises, one raise only,
\* and two raises recorded against the seat order
OrbitPreflopSeeds ==
    {JSObj(<<KV("UTG", EntryAmt("Raise", 6)), KV("BTN", EntryAmt("3Bet", 18))>>),
     JSObj(<<KV("CO", EntryAmt("Raise", 4)), KV("BTN", EntryAmt("Raise", 8)),
             KV("BB", Entry("Call"))>>),
     JSObj(<<KV("UTG", Entry("Call")), KV("CO", EntryAmt("Raise", 4)),
             KV("BB", EntryAmt("Raise", 12))>>),
     JSObj(<<KV("BTN", EntryAmt("Raise", 6)), KV("BB", Entry("Call"))>>),
     JSObj(<<KV("BTN", EntryAmt("Raise", 6)), KV("UTG", EntryAmt("Raise", 4))>>)}

OrbitPreflopPairs ==
    {KV(k, v) : k \in {"UTG_2", "UTG_3", "CO_2"},
                v \in {Entry("Call"), Entry("Fold"), EntryAmt("Raise", 10)}}

\* a preflop after which SB, BB, CO and BTN are still in the hand
OrbitSeedPreflop ==
    JSObj(<<KV("CO", EntryAmt("Raise", 4)), KV("BTN", Entry("Call")),
            KV("SB", Entry("Call")), KV("BB", Entry("Call"))>>)

\* flop streets by their first-orbit entries: a bet from the last seat, a
\* bet with silent seats on both sides, a bet and a raise after a Call and
\* a Fold, no entry, checks only, one late check
OrbitFlopSeeds ==
    {JSObj(<<KV("BB", Entry("Check")), KV("BTN", EntryAmt("Bet", 10))>>),
     JSObj(<<KV("CO", EntryAmt("Bet", 4))>>),
     JSObj(<<KV("SB", Entry("Call")), KV("BB", Entry("Fold")), KV("CO", EntryAmt("Bet", 2)),
             KV("BTN", EntryAmt("Raise", 4))>>),
     JSObj(<<>>),
     JSObj(<<KV("BB", Entry("Check")), KV("CO", Entry("Check"))>>),
     JSObj(<<KV("BTN", Entry("Check"))>>)}

OrbitFlopPairs ==
    {KV(k, v) : k \in {"SB_2", "SB_3", "CO_2"},
                v \in {Entry("Call"), Entry("Fold"), EntryAmt("Raise", 10)}}

SeedOrbitFlop == JSObj(<<KV("BB", Entry("Check")), KV("BTN", EntryAmt("Bet", 10))>>)

OrbitHands ==
    {Hand(<<KV("preflop", JSObj(first.e \o m)), KV("flop", SeedOrbitFlop)>>) :
        first \in OrbitPreflopSeeds, m \in Maps(OrbitPreflopPairs, MaxReopened)}
    \cup
    {Hand(<<KV("preflop", OrbitSeedPreflop), KV("flop", JSObj(first.e \o m)),
            KV("turn", SeedTurn)>>) :
        first \in OrbitFlopSeeds, m \in Maps(OrbitFlopPairs, MaxReopened)}

InitOrbit ==
    /\ action \in OrbitHands
    /\ hero \in Heroes
    /\ pc = "preflop"
    /\ queue = <<>>
    /\ foldedPositions = {}
    /\ ends = <<>>
    /\ calls = 1
    /\ firstCall = NoCall
    /\ NoInviteTraffic
    /\ NoWebTraffic

SpecOrbit == InitOrbit /\ [][Next]_vars

-----------------------------------------------------------------------------
(* The invite endpoints: one action per handler, two for a handler that    *)
(* writes after an awaited read.  Every POST starts with the check of its  *)
(* Authorization header: user is the authenticated uid.                    *)

MaxRequests == 2
MaxTime == 2

Header(xForwardedFor, xRealIP) == [xff |-> xForwardedFor, xri |-> xRealIP]
NoIPHeader == Header(JSUndefined, JSUndefined)
PageHeaders ==
    {NoIPHeader, Header(JSStr("1.2.3.4"), JSUndefined),
     Header(JSStr("::ffff:1.2.3.4, 10.0.0.2"), JSUndefined),
     Header(JSUndefined, JSStr("2001:db8::1"))}
ClaimHeaders == {NoIPHeader, Header(JSStr("1.2.3.4"), JSUndefined)}
UA_IPHONE == "Mozilla/5.0 (iPhone; CPU iPhone OS 17_0 like Mac OS X)"
UA_MAC == "Mozilla/5.0 (Macintosh; Intel Mac OS X 10_15_7)"
UserAgents == {UA_IPHONE, UA_MAC}
Inviters == {"alice", "bob", "nobody"}
AuthHeaders ==
    {JSUndefined, JSStr("Basic id-u1"), JSStr("Bearer expired")}
        \cup {JSStr("Bearer " \o IdTokenOf(uid)) : uid \in Users}

Receive ==
    /\ requests < MaxRequests
    /\ requests' = requests + 1

Drop(seq, i) == SubSeq(seq, 1, i - 1) \o SubSeq(seq, i + 1, Len(seq))

\* `return res.status(401).json(...)` of the authentication block
Unauthorized(handler, authorization) ==
    lastResp' = Response(handler, "", 401, JSUndefined, JSUndefined, now, NoFingerprint,
                         authorization, 0)

\* GET /invite/:username
InvitePage ==
    /\ Receive
    /\ \E inviter \in Inviters, h \in PageHeaders, userAgent \in UserAgents :
         LET usersSnapshot == {uid \in Users : UsernameOf(uid) = inviter} IN
         IF usersSnapshot = {}
         THEN /\ lastResp' = Response("invite-page", "", 404, JSUndefined, JSUndefined, now,
                                      NoFingerprint, JSUndefined, 1)
              /\ UNCHANGED inviteClaims
         ELSE LET inviterUserId == CHOOSE uid \in usersSnapshot : TRUE
                  token == Token(requests + 1)
              IN /\ inviteClaims' = inviteClaims \cup
                        {InviteClaim(token, inviter, inviterUserId, now, userAgent,
                                     getClientIP(h.xff, h.xri))}
                 /\ lastResp' = Response("invite-page", "", 200, JSStr(inviterUserId),
                                         JSStr(token), now, NoFingerprint, JSUndefined, 2)
    /\ UNCHANGED <<now, pendingInvites, redeemedInvites, inflight>>
    /\ UNCHANGED handVars
    /\ UNCHANGED webVars

\* POST /api/invite/create-pending-invite
CreatePendingInvite ==
    /\ Receive
    /\ \E authorization \in AuthHeaders :
         LET auth == Authenticate(authorization)
             inviterUid == auth.uid
             token == Token(requests + 1)
         IN
         IF ~auth.ok
         THEN /\ Unauthorized("create-pending-invite", authorization)
              /\ UNCHANGED pendingInvites
         ELSE /\ pendingInvites' = pendingInvites \cup {PendingInvite(token, inviterUid, now)}
              /\ lastResp' = Response("create-pending-invite", inviterUid, 200,
                                      JSStr(inviterUid), JSStr(token), now, NoFingerprint,
                                      authorization, 2)
    /\ UNCHANGED <<now, inviteClaims, redeemedInvites, inflight>>
    /\ UNCHANGED handVars
    /\ UNCHANGED webVars

\* the self-redemption test of POST /api/invite/redeem
RedeemsOwn(authenticatedUserId, inviterId) == JSStr(authenticatedUserId) = inviterId

\* POST /api/invite/redeem up to its write: the body check, the query for an
\* existing redemption and the self-redemption check
Redeem_Check ==
    /\ Receive
    /\ \E authorization \in AuthHeaders,
          inviterId \in {JSUndefined, JSStr("u1"), JSStr("u2")} :
         LET auth == Authenticate(authorization)
             user == auth.uid
             badBody == ~Truthy(inviterId) \/ TypeOf(inviterId) # "string"
             existingRedemption == {doc \in redeemedInvites : WhereEq(doc, "userId", JSStr(user))}
         IN
         IF ~auth.ok
         THEN /\ Unauthorized("redeem", authorization)
              /\ UNCHANGED inflight
         ELSE IF badBody \/ existingRedemption # {} \/ RedeemsOwn(user, inviterId)
         THEN /\ lastResp' = Response("redeem", user, 400, JSUndefined, JSUndefined, now,
                                      NoFingerprint, authorization,
                                      IF badBody THEN 0 ELSE 1)
              /\ UNCHANGED inflight
         ELSE /\ inflight' = Append(inflight,
                     Pending("redeem", user, "", inviterId, JSUndefined, NoFingerprint,
                             authorization))
              /\ UNCHANGED lastResp
    /\ UNCHANGED <<now, inviteClaims, pendingInvites, redeemedInvites>>
    /\ UNCHANGED handVars
    /\ UNCHANGED webVars

\* POST /api/invite/redeem: `await db.collection('redeemed_invites').add(...)`
\* and the response
Redeem_Add ==
    /\ \E i \in 1..Len(inflight) :
         /\ inflight[i].handler = "redeem"
         /\ redeemedInvites' = redeemedInvites \cup
                {RedeemedInvite(Cardinality(redeemedInvites) + 1, inflight[i].user,
                                inflight[i].inviterId, now)}
         /\ lastResp' = Response("redeem", inflight[i].user, 200, inflight[i].inviterId,
                                 JSUndefined, now, NoFingerprint,
                                 inflight[i].authorization, 2)
         /\ inflight' = Drop(inflight, i)
    /\ UNCHANGED <<now, inviteClaims, pendingInvites, requests>>
    /\ UNCHANGED handVars
    /\ UNCHANGED webVars

\* the query of claim-by-fingerprint: pending, unexpired, and the filters on
\* the client IP and the device type when the request has them
FingerprintQuery(clientIP, deviceType) ==
    {doc \in inviteClaims :
        /\ WhereEq(doc, "status", JSStr("pending"))
        /\ WhereGt(doc, "expiresAt", now)
        /\ Truthy(clientIP) => WhereEq(doc, "redeemerIPAddress", clientIP)
        /\ Truthy(deviceType) => WhereEq(doc, "redeemerDeviceType", deviceType)}

\* mutant of IsOwnClaim: the caller's own invites are not skipped
IsOwnClaim_Never(claimData, authenticatedUserId) == FALSE

\* the test that makes the loop skip the caller's own invites
IsOwnClaim(claimData, authenticatedUserId) ==
    claimData.inviterUserId = JSStr(authenticatedUserId)

\* the loop over the snapshot keeps the first document that passes this
Matches(claimData, authenticatedUserId, iosMajorVersion) ==
    /\ ~IsOwnClaim(claimData, authenticatedUserId)
    /\ ~(/\ Truthy(iosMajorVersion)
         /\ Truthy(claimData.redeemerIOSMajorVersion)
         /\ claimData.redeemerIOSMajorVersion # iosMajorVersion)

\* orderBy('expiresAt', 'asc').orderBy('createdAt', 'desc')
Precedes(a, b) ==
    \/ a.expiresAt.n < b.expiresAt.n
    \/ a.expiresAt.n = b.expiresAt.n /\ a.createdAt.n > b.createdAt.n

\* the documents the loop can stop at; documents equal in both sort keys
\* come in the order of their random ids.  limit(5) cuts nothing off: the
\* collection never holds more than MaxRequests documents.
MatchedClaims(snapshot, authenticatedUserId, iosMajorVersion) ==
    {doc \in snapshot :
        /\ Matches(doc, authenticatedUserId, iosMajorVersion)
        /\ \A other \in snapshot :
               Matches(other, authenticatedUserId, iosMajorVersion) => ~Precedes(other, doc)}

\* POST /api/invite/claim-by-fingerprint up to its write
ClaimByFingerprint_Query ==
    /\ Receive
    /\ \E authorization \in AuthHeaders, h \in ClaimHeaders,
          deviceType \in {JSUndefined, JSStr("iPhone")},
          iosMajorVersion \in {JSUndefined, JSStr("17"), JSStr("16")} :
         LET auth == Authenticate(authorization)
             user == auth.uid
             fingerprint == Fingerprint(getClientIP(h.xff, h.xri), deviceType, iosMajorVersion)
             claimsSnapshot == FingerprintQuery(fingerprint.ip, deviceType)
             matched == MatchedClaims(claimsSnapshot, user, iosMajorVersion)
         IN
         IF ~auth.ok
         THEN /\ Unauthorized("claim-by-fingerprint", authorization)
              /\ UNCHANGED inflight
         ELSE IF matched = {}
         THEN /\ lastResp' = Response("claim-by-fingerprint", user, 404, JSUndefined,
                                      JSUndefined, now, fingerprint, authorization, 1)
              /\ UNCHANGED inflight
         ELSE /\ \E matchedClaim \in matched :
                    inflight' = Append(inflight,
                        Pending("claim-by-fingerprint", user, matchedClaim.token.s,
                                matchedClaim.inviterUserId, matchedClaim.inviterUsername,
                                fingerprint, authorization))
              /\ UNCHANGED lastResp
    /\ UNCHANGED <<now, inviteClaims, pendingInvites, redeemedInvites>>
    /\ UNCHANGED handVars
    /\ UNCHANGED webVars

\* POST /api/invite/claim-by-fingerprint: `await matchedClaim.ref.update(...)`
\* and the response
ClaimByFingerprint_Update ==
    /\ \E i \in 1..Len(inflight) :
         /\ inflight[i].handler = "claim-by-fingerprint"
         /\ inviteClaims' = Update(inviteClaims, inflight[i].token,
                [status |-> JSStr("redeemed"), redeemedByUserId |-> JSStr(inflight[i].user),
                 redeemedAt |-> JSNum(now)])
         /\ lastResp' = Response("claim-by-fingerprint", inflight[i].user, 200,
                                 inflight[i].inviterId, JSStr(inflight[i].token), now,
                                 inflight[i].fingerprint, inflight[i].authorization, 2)
         /\ inflight' = Drop(inflight, i)
    /\ UNCHANGED <<now, pendingInvites, redeemedInvites, requests>>
    /\ UNCHANGED handVars
    /\ UNCHANGED webVars

\* the self-claim test of claim-latest-invite
IsOwnInvite(inviteData, authenticatedUserId) ==
    inviteData.inviterUid = JSStr(authenticatedUserId)

\* `inviteData.expiresAt && inviteData.expiresAt.toDate() < new Date()`
HasExpired(inviteData, time) == Truthy(inviteData.expiresAt) /\ inviteData.expiresAt.n < time

\* the documents the query for the latest web invite can return as its first:
\* unredeemed, of source web, of the greatest createdAt (create-pending-invite
\* writes source app, so the handlers modelled here never make it non-empty)
LatestWebInvites ==
    LET unredeemed == {doc \in pendingInvites :
                          WhereEq(doc, "redeemed", JSFalse) /\ WhereEq(doc, "source", JSStr("web"))}
    IN {doc \in unredeemed : \A other \in unredeemed : other.createdAt.n <= doc.createdAt.n}

\* POST /api/invite/claim-latest-invite up to its write
ClaimLatest_Read ==
    /\ Receive
    /\ \E authorization \in AuthHeaders,
          token \in {JSUndefined} \cup {JSStr(Token(n)) : n \in 1..requests} :
         LET auth == Authenticate(authorization)
             user == auth.uid
             byToken == Truthy(token) /\ TypeOf(token) = "string"
             found == IF byToken THEN {doc \in pendingInvites : doc.token = token}
                      ELSE LatestWebInvites
         IN
         IF ~auth.ok
         THEN /\ Unauthorized("claim-latest-invite", authorization)
              /\ UNCHANGED inflight
         ELSE IF found = {}
         THEN /\ lastResp' = Response("claim-latest-invite", user, 404, JSUndefined,
                                      JSUndefined, now, NoFingerprint, authorization, 1)
              /\ UNCHANGED inflight
         ELSE \E inviteData \in found :
                IF \/ byToken /\ Truthy(inviteData.redeemed)
                   \/ HasExpired(inviteData, now)
                   \/ IsOwnInvite(inviteData, user)
                THEN /\ lastResp' = Response("claim-latest-invite", user, 400, JSUndefined,
                                             JSUndefined, now, NoFingerprint, authorization, 1)
                     /\ UNCHANGED inflight
                ELSE /\ inflight' = Append(inflight,
                            Pending("claim-latest-invite", user, inviteData.token.s,
                                    inviteData.inviterUid, inviteData.inviterUsername,
                                    NoFingerprint, authorization))
                     /\ UNCHANGED lastResp
    /\ UNCHANGED <<now, inviteClaims, pendingInvites, redeemedInvites>>
    /\ UNCHANGED handVars
    /\ UNCHANGED webVars

\* POST /api/invite/claim-latest-invite: `await inviteDoc.ref.update(...)`
\* and the response
ClaimLatest_Update ==
    /\ \E i \in 1..Len(inflight) :
         /\ inflight[i].handler = "claim-latest-invite"
         /\ pendingInvites' = Update(pendingInvites, inflight[i].token,
                [redeemed |-> JSTrue, redeemedBy |-> JSStr(inflight[i].user),
                 redeemedAt |-> JSNum(now)])
         /\ lastResp' = Response("claim-latest-invite", inflight[i].user, 200,
                                 inflight[i].inviterId, JSStr(inflight[i].token), now,
                                 NoFingerprint, inflight[i].authorization, 2)
         /\ inflight' = Drop(inflight, i)
    /\ UNCHANGED <<now, inviteClaims, redeemedInvites, requests>>
    /\ UNCHANGED handVars
    /\ UNCHANGED webVars

\* An hour passes.  A request lasts far less than an hour: the clock moves
\* only while no request is between its read and its write.
Tick ==
    /\ now < MaxTime
    /\ inflight = <<>>
    /\ now' = now + 1
    /\ UNCHANGED <<inviteClaims, pendingInvites, redeemedInvites, inflight, lastResp, requests>>
    /\ UNCHANGED handVars
    /\ UNCHANGED webVars

\* no hand is being built
NoHand ==
    /\ action = JSUndefined
    /\ hero = ""
    /\ pc = "idle"
    /\ queue = <<>>
    /\ foldedPositions = {}
    /\ ends = <<>>
    /\ calls = 0
    /\ firstCall = NoCall

InitInvite ==
    /\ NoHand
    /\ now = 0
    /\ inviteClaims = {}
    /\ pendingInvites = {}
    /\ redeemedInvites = {}
    /\ inflight = <<>>
    /\ lastResp = NoResponse
    /\ requests = 0
    /\ NoWebTraffic

NextInvite ==
    \/ InvitePage
    \/ CreatePendingInvite
    \/ Redeem_Check
    \/ Redeem_Add
    \/ ClaimByFingerprint_Query
    \/ ClaimByFingerprint_Update
    \/ ClaimLatest_Read
    \/ ClaimLatest_Update
    \/ Tick

SpecInvite == InitInvite /\ [][NextInvite]_vars

-----------------------------------------------------------------------------
(* Claims racing for one invite: the state after one visit of the invite   *)
(* page, then claim-by-fingerprint requests only; `requests` counts the    *)
(* requests received after that visit.                                     *)
VisitedOnce ==
    {InviteClaim(Token(1), UsernameOf(inviterUserId), inviterUserId, 0, userAgent,
                 getClientIP(h.xff, h.xri)) :
        inviterUserId \in Users, userAgent \in UserAgents, h \in PageHeaders}

InitClaimRace ==
    /\ NoHand
    /\ now = 0
    /\ \E doc \in VisitedOnce : inviteClaims = {doc}
    /\ pendingInvites = {}
    /\ redeemedInvites = {}
    /\ inflight = <<>>
    /\ lastResp = NoResponse
    /\ requests = 0
    /\ NoWebTraffic

NextClaimRace == ClaimByFingerprint_Query \/ ClaimByFingerprint_Update \/ Tick

SpecClaimRace == InitClaimRace /\ [][NextClaimRace]_vars

-----------------------------------------------------------------------------
(* The challenge replay page, daily10/challenge/[id].ts.  The handler      *)
(* builds PUZZLE from the first puzzle of the challenge's date; the page's *)
(* script replays PUZZLE.actionQueue under the Prev, Reset and Next        *)
(* buttons and asks the question after the last action.  challengePage     *)
(* holds the puzzle document p, PUZZLE, the script's variables under their *)
(* own names, what the script reads back from the document (disabled       *)
(* buttons, hidden elements), and the number of callbacks handed to        *)
(* setTimeout that have not run yet.  Amounts are in half big blinds.      *)

MaxTimers == 2   \* pending setTimeout(showQuestion, 500) callbacks

\* `a || b`
Or(a, b) == IF Truthy(a) THEN a ELSE b

\* a document of new_daily_puzzles: Hero, Action and AnswerOptions (a list,
\* empty when the field is missing: `p.AnswerOptions || []`)
PuzzleDoc(heroField, actionField, answerOptions) ==
    [Hero |-> heroField, Action |-> actionField, AnswerOptions |-> answerOptions]
\* `puzzleSnap.empty`, or a challenge without scheduledDate
NoPuzzle == [Hero |-> JSUndefined, Action |-> JSUndefined, AnswerOptions |-> <<>>, empty |-> TRUE]

\* puzzleData: `p.Hero || ''`, `p.Action || {}` and the queue of the private
\* builder
PuzzleData(p) ==
    LET heroPos == Or(p.Hero, JSStr("")).s
        actionData == Or(p.Action, JSObj(<<>>))
    IN [hero |-> heroPos,
        actionQueue |-> Challenge_buildActionQueue(actionData, heroPos),
        answerOptions |-> p.AnswerOptions]

POSITIONS == <<"UTG", "HJ", "CO", "BTN", "SB", "BB">>

\* the keys of posToSeat that are positions: with a hero that is none of
\* the six, heroIdx is -1 and the rotation is undefined, UTG, ..., SB
PosToSeat(heroPos) ==
    IF IndexOf(POSITIONS, heroPos) # 0
    THEN {POSITIONS[i] : i \in 1..6}
    ELSE {POSITIONS[i] : i \in 1..5}

NoBets == [pos \in {} |-> 0]

RECURSIVE SumBets(_, _)
SumBets(bets, keys) ==
    IF keys = {} THEN 0
    ELSE LET k == CHOOSE x \in keys : TRUE IN bets[k] + SumBets(bets, keys \ {k})

\* parseCards(str).length
CardCount(str) == (Len(str) + 1) \div 2

showBet(pg, pos, amount) ==
    IF pos \notin PosToSeat(pg.PUZZLE.hero) THEN pg
    ELSE [pg EXCEPT !.currentBets = MapSet(@, pos, amount)]

foldSeat(pg, pos) ==
    IF pos \notin PosToSeat(pg.PUZZLE.hero) THEN pg
    ELSE [pg EXCEPT !.foldedSet = @ \cup {pos}]

collectPot(pg) ==
    [pg EXCEPT !.pot = @ + SumBets(pg.currentBets, DOMAIN pg.currentBets),
               !.currentBets = NoBets]

revealBoardCards(pg, cardsStr) ==
    [collectPot(pg) EXCEPT !.boardCardCount = @ + CardCount(cardsStr)]

captureState(pg) ==
    [pot |-> pg.pot, currentBets |-> pg.currentBets, foldedSet |-> pg.foldedSet,
     boardCardCount |-> pg.boardCardCount]

restoreState(pg, snapshot) ==
    [pg EXCEPT !.pot = snapshot.pot, !.currentBets = snapshot.currentBets,
               !.foldedSet = snapshot.foldedSet, !.boardCardCount = snapshot.boardCardCount]

updateNavButtons(pg) ==
    [pg EXCEPT !.prevDisabled = pg.currentActionIndex < 0,
               !.nextDisabled = pg.currentActionIndex >= Len(pg.PUZZLE.actionQueue) - 1]

\* the script's top level and init(): the page as it is first shown
LoadedPage(p, puzzleData) ==
    updateNavButtons(
        [stage |-> "page", p |-> p, PUZZLE |-> puzzleData,
         phase |-> "replay", currentActionIndex |-> -1, actionHistory |-> <<>>,
         pot |-> 0, currentBets |-> NoBets, foldedSet |-> {}, boardCardCount |-> 0,
         prevDisabled |-> TRUE, nextDisabled |-> FALSE,
         controls |-> TRUE, questionArea |-> FALSE, answerButtons |-> 0,
         resultInfo |-> FALSE, ctaOverlay |-> FALSE,
         showQuestionTimers |-> 0, answerTimers |-> 0, showCtaTimers |-> 0])

resetState(pg) ==
    updateNavButtons(
        [pg EXCEPT !.pot = 0, !.currentBets = NoBets, !.boardCardCount = 0, !.foldedSet = {},
                   !.currentActionIndex = -1, !.actionHistory = <<>>, !.phase = "replay",
                   !.questionArea = FALSE, !.answerButtons = 0, !.resultInfo = FALSE,
                   !.ctaOverlay = FALSE, !.controls = TRUE])

\* stepForward up to its last statement, for the action at index + 1
ApplyAction(pg, a) ==
    IF a.isBoard /\ a.boardCards # "" THEN revealBoardCards(pg, a.boardCards)
    ELSE IF a.action \in {"Post", "Call", "Raise", "Bet"} THEN showBet(pg, a.position, a.amount)
    ELSE IF a.action = "Fold" THEN foldSeat(pg, a.position)
    ELSE pg

stepForward(pg) ==
    IF pg.phase # "replay" THEN pg
    ELSE IF pg.currentActionIndex >= Len(pg.PUZZLE.actionQueue) - 1 THEN pg
    ELSE LET pushed == [pg EXCEPT !.actionHistory = Append(@, captureState(pg)),
                                  !.currentActionIndex = @ + 1]
             shown == updateNavButtons(
                          ApplyAction(pushed, pg.PUZZLE.actionQueue[pushed.currentActionIndex + 1]))
         IN IF shown.currentActionIndex >= Len(pg.PUZZLE.actionQueue) - 1
            THEN [shown EXCEPT !.showQuestionTimers = @ + 1]
            ELSE shown

stepBackward(pg) ==
    IF Len(pg.actionHistory) = 0 THEN pg
    ELSE LET snapshot == pg.actionHistory[Len(pg.actionHistory)]
             popped == [restoreState(pg, snapshot) EXCEPT
                           !.actionHistory = SubSeq(@, 1, Len(@) - 1),
                           !.currentActionIndex = @ - 1]
             back == IF pg.phase # "replay"
                     THEN [popped EXCEPT !.phase = "replay", !.questionArea = FALSE,
                                         !.answerButtons = 0, !.resultInfo = FALSE,
                                         !.controls = TRUE]
                     ELSE popped
         IN updateNavButtons(back)

showQuestion(pg) ==
    [pg EXCEPT !.phase = "question", !.controls = FALSE, !.questionArea = TRUE,
               !.answerButtons = @ + Len(pg.PUZZLE.answerOptions)]

handleAnswer(pg) ==
    IF pg.phase # "question" THEN pg
    ELSE [pg EXCEPT !.phase = "result", !.answerTimers = @ + 1]

showCta(pg) == [pg EXCEPT !.phase = "cta", !.ctaOverlay = TRUE]

\* what a step of the page leaves alone
PageStep == UNCHANGED <<sharedHands, shareInflight, shareResponses, handPage>>
              /\ UNCHANGED handVars /\ UNCHANGED inviteVars

\* GET /api/daily10/challenge/:id
ServeChallenge ==
    /\ challengePage.stage = "request"
    /\ IF "empty" \in DOMAIN challengePage.p
       THEN challengePage' = [stage |-> "redirect", p |-> challengePage.p]
       ELSE \E puzzleData \in {PuzzleData(challengePage.p)} :
               challengePage' = LoadedPage(challengePage.p, puzzleData)
    /\ PageStep

\* a click on Next; a disabled or hidden button takes no click
StepForward ==
    /\ challengePage.stage = "page"
    /\ challengePage.controls /\ ~challengePage.nextDisabled
    /\ challengePage.showQuestionTimers < MaxTimers
    /\ challengePage' = stepForward(challengePage)
    /\ PageStep

\* a click on Prev
StepBackward ==
    /\ challengePage.stage = "page"
    /\ challengePage.controls /\ ~challengePage.prevDisabled
    /\ challengePage' = stepBackward(challengePage)
    /\ PageStep

\* a click on Reset
ResetState ==
    /\ challengePage.stage = "page"
    /\ challengePage.controls
    /\ challengePage' = resetState(challengePage)
    /\ PageStep

\* a callback of setTimeout(showQuestion, 500) runs
ShowQuestion ==
    /\ challengePage.stage = "page"
    /\ challengePage.showQuestionTimers > 0
    /\ challengePage' = showQuestion([challengePage EXCEPT !.showQuestionTimers = @ - 1])
    /\ PageStep

\* a click on an answer button
HandleAnswer ==
    /\ challengePage.stage = "page"
    /\ challengePage.questionArea /\ challengePage.answerButtons > 0
    /\ challengePage' = handleAnswer(challengePage)
    /\ PageStep

\* the callback handleAnswer set runs: the result is shown, showCta is set
RevealAnswer ==
    /\ challengePage.stage = "page"
    /\ challengePage.answerTimers > 0
    /\ challengePage' = [challengePage EXCEPT !.answerTimers = @ - 1, !.resultInfo = TRUE,
                                              !.showCtaTimers = @ + 1]
    /\ PageStep

\* a callback of setTimeout(showCta, 1500) runs
ShowCta ==
    /\ challengePage.stage = "page"
    /\ challengePage.showCtaTimers > 0
    /\ challengePage' = showCta([challengePage EXCEPT !.showCtaTimers = @ - 1])
    /\ PageStep

\* the puzzles the page is replayed on: the scenarios, a hand that reaches
\* the river, a puzzle without Action, a puzzle without Hero
ReplayPuzzles ==
    {PuzzleDoc(JSStr(h), a, o) :
        h \in {"BTN", "BB", "UTG"},
        a \in {ScenarioA, ScenarioB, ScenarioD,
               Hand(<<KV("preflop", SeedPreflop), KV("flop", SeedFlop), KV("turn", SeedTurn),
                      KV("river", SeedRiver)>>),
               Hand(<<>>), JSUndefined},
        o \in {<<>>, <<"Fold", "Call">>}}
    \cup {PuzzleDoc(JSUndefined, ScenarioB, <<"Fold", "Call">>), NoPuzzle}

\* nothing else goes on while a page is looked at
OnlyPages ==
    /\ NoHand
    /\ NoInviteTraffic
    /\ sharedHands = {}
    /\ shareInflight = <<>>
    /\ shareResponses = <<>>

InitChallenge ==
    /\ OnlyPages
    /\ \E p \in ReplayPuzzles : challengePage = [stage |-> "request", p |-> p]
    /\ handPage = NoPage

NextChallenge ==
    \/ ServeChallenge
    \/ StepForward
    \/ StepBackward
    \/ ResetState
    \/ ShowQuestion
    \/ HandleAnswer
    \/ RevealAnswer
    \/ ShowCta

SpecChallenge == InitChallenge /\ [][NextChallenge]_vars

\* Next pressed again and again on a page just loaded, and every timer set
\* runs: no Prev, no Reset
InitPressNext ==
    /\ OnlyPages
    /\ \E p \in ReplayPuzzles \ {NoPuzzle} :
          \E puzzleData \in {PuzzleData(p)} : challengePage = LoadedPage(p, puzzleData)
    /\ handPage = NoPage

NextPressing == StepForward \/ ShowQuestion

SpecPressNext ==
    /\ InitPressNext
    /\ [][NextPressing]_vars
    /\ WF_vars(StepForward)
    /\ WF_vars(ShowQuestion)

\* the private builder on every hand the exported builder is run on
CopyPuzzles ==
    {PuzzleDoc(JSStr(h), a, <<>>) : h \in Heroes, a \in Hands \cup OrbitHands}
    \cup {PuzzleDoc(JSUndefined, a, <<>>) : a \in FixedHands \cup {JSUndefined}}

InitCopies ==
    /\ OnlyPages
    /\ \E p \in CopyPuzzles : challengePage = [stage |-> "request", p |-> p]
    /\ handPage = NoPage

SpecCopies == InitCopies /\ [][ServeChallenge]_vars

-----------------------------------------------------------------------------
(* POST /api/hands/share, hands/share.ts.  The handler looks the hand up,  *)
(* queries shared_hands for a share of the same hand by the same user and  *)
(* writes a new document when the query is empty.  The query and the write *)
(* are separate awaits: Share_Query is the handler up to the query's       *)
(* result, Share_Set the rest, and shareInflight holds the requests in     *)
(* between.  The hands collection is only read.                            *)

MaxShares == 3   \* share requests received

HandDocs == {"hand-1"}
Sharers == {"u1", "u2"}

ShareMethods == {"POST", "GET"}
ShareBodies ==
    [hand_id : {JSUndefined, JSNum(7), JSStr("hand-1"), JSStr("hand-9")},
     user_id : {JSUndefined} \cup {JSStr(u) : u \in Sharers},
     display_name : {JSUndefined, JSStr("Al")}]

\* `!x || typeof x !== 'string'`
MissingString(x) == ~Truthy(x) \/ x.t # "string"

ShareResponse(status, hand_id, user_id, share_id) ==
    [status |-> status, hand_id |-> hand_id, user_id |-> user_id, share_id |-> share_id]

\* the documents the query matches
ExistingShare(hand_id, user_id) ==
    {d \in sharedHands : d.hand_id = hand_id /\ d.user_id = user_id}

\* nanoid(): eight characters of a 55-letter alphabet; the ids drawn are
\* taken to be distinct, the n-th one is written share-n
ShareIds == <<"share-1", "share-2", "share-3", "share-4", "share-5">>
nanoid == ShareIds[Cardinality(sharedHands) + 1]

SharedHand(shareId, body) ==
    [share_id |-> shareId, hand_id |-> body.hand_id.s, user_id |-> body.user_id.s,
     sharer_name |-> Or(body.display_name, JSStr("Someone")).s, view_count |-> 0]

\* what a step of the share handler leaves alone
ShareStep == UNCHANGED <<challengePage, handPage>> /\ UNCHANGED handVars /\ UNCHANGED inviteVars

Share_Answer(resp) ==
    /\ shareResponses' = Append(shareResponses, resp)
    /\ UNCHANGED <<sharedHands, shareInflight>>

\* the handler from the request to the result of the shared_hands query
Share_Query ==
    /\ Len(shareResponses) + Len(shareInflight) < MaxShares
    /\ \E method \in ShareMethods, body \in ShareBodies :
        IF method # "POST" THEN Share_Answer(ShareResponse(405, "", "", ""))
        ELSE IF MissingString(body.hand_id) THEN Share_Answer(ShareResponse(400, "", "", ""))
        ELSE IF MissingString(body.user_id)
        THEN Share_Answer(ShareResponse(400, body.hand_id.s, "", ""))
        ELSE IF body.hand_id.s \notin HandDocs
        THEN Share_Answer(ShareResponse(404, body.hand_id.s, body.user_id.s, ""))
        ELSE LET existingShare == ExistingShare(body.hand_id.s, body.user_id.s)
             IN IF existingShare # {}
                THEN \E existingDoc \in existingShare :
                        Share_Answer(ShareResponse(200, body.hand_id.s, body.user_id.s,
                                                   existingDoc.share_id))
                ELSE /\ shareInflight' = Append(shareInflight, body)
                     /\ UNCHANGED <<sharedHands, shareResponses>>
    /\ ShareStep

\* the handler after the query came back empty: nanoid, set, 200
Share_Set ==
    /\ \E i \in 1..Len(shareInflight) :
        LET body == shareInflight[i]
            shareId == nanoid
        IN /\ sharedHands' = {d \in sharedHands : d.share_id # shareId}
                                 \cup {SharedHand(shareId, body)}
           /\ shareInflight' = SubSeq(shareInflight, 1, i - 1)
                                   \o SubSeq(shareInflight, i + 1, Len(shareInflight))
           /\ shareResponses' = Append(shareResponses,
                                    ShareResponse(200, body.hand_id.s, body.user_id.s, shareId))
    /\ ShareStep

InitShare ==
    /\ NoHand
    /\ NoInviteTraffic
    /\ NoWebTraffic

NextShare == Share_Query \/ Share_Set

SpecShare == InitShare /\ [][NextShare]_vars

-----------------------------------------------------------------------------
(* The shared-hand replay page, hands/[id].ts.  The page's script plays    *)
(* HAND.actions by itself, one action per timer callback, starting 1 s     *)
(* after the page loaded or at a click on Replay, and shows the download   *)
(* overlay 2 s after a replay finished.  handPage holds HAND, the script's *)
(* variables under their own names, the state of the Replay button and of  *)
(* the overlay, and the pending setTimeout callbacks in the order they     *)
(* were set, each with the time left until it runs.  Time is counted in    *)
(* units of 200 ms; amounts are in cents.                                  *)

PlayDelay == 3        \* setTimeout(playNextAction, 600)
StreetDelay == 4      \* setTimeout(playNextAction, 800)
AutoStartDelay == 5   \* setTimeout(startReplay, 1000)
CtaDelay == 10        \* setTimeout(showCta, 2000)

LogAction(seat, label, amount, street) ==
    [seat |-> seat, action |-> label, amount |-> amount, street |-> street]

\* actions of a BotHandLog; amount JSUndefined where the log has none
HandLogs ==
    {<<>>,
     <<LogAction(0, "fold", JSUndefined, "preflop")>>,
     <<LogAction(0, "post_blind", JSNum(50), "preflop"),
       LogAction(1, "post_blind", JSNum(100), "preflop"),
       LogAction(0, "CALL", JSNum(100), "preflop"),
       LogAction(1, "check", JSUndefined, "preflop"),
       LogAction(0, "check", JSNum(0), "flop"),
       LogAction(1, "bet", JSNum(200), "flop"),
       LogAction(0, "fold", JSUndefined, "flop")>>}

\* transformHandForWeb, the actions: `amount: a.amount ?? 0`
transformHandForWeb(hand) ==
    [actions |-> [i \in 1..Len(hand) |->
                     [hand[i] EXCEPT !.amount = IF @.t \in {"undefined", "null"} THEN 0 ELSE @.n]]]

\* capitalizeAction on the labels of the logs
capitalizeAction(label) ==
    CASE label \in {"post_blind", "post", "POST"} -> "Post"
      [] label \in {"fold", "FOLD", "Fold"} -> "Fold"
      [] label \in {"check", "CHECK", "Check"} -> "Check"
      [] label \in {"call", "CALL", "Call"} -> "Call"
      [] label \in {"bet", "BET", "Bet"} -> "Bet"
      [] label \in {"raise", "RAISE", "Raise"} -> "Raise"
      [] OTHER -> label

Timer(fn, delay) == [fn |-> fn, in |-> delay]

Hand_setTimeout(pg, fn, delay) == [pg EXCEPT !.timers = Append(@, Timer(fn, delay))]

Hand_showBet(pg, seatIdx, amount) == [pg EXCEPT !.currentBets = MapSet(@, seatIdx, amount)]

Hand_foldSeat(pg, seatIdx) == [pg EXCEPT !.foldedSet = @ \cup {seatIdx}]

Hand_collectPot(pg) ==
    [pg EXCEPT !.pot = @ + SumBets(pg.currentBets, DOMAIN pg.currentBets),
               !.currentBets = NoBets]

\* the script's top level and init(): the page as it is first shown
LoadedHandPage(hand) ==
    [stage |-> "page", HAND |-> transformHandForWeb(hand),
     isPlaying |-> FALSE, currentActionIndex |-> 0, currentStreet |-> "preflop",
     pot |-> 0, currentBets |-> NoBets, foldedSet |-> {},
     replayBtnDisabled |-> FALSE, ctaOverlay |-> FALSE, winners |-> FALSE,
     timers |-> <<Timer("startReplay", AutoStartDelay)>>]

Hand_resetState(pg) ==
    [pg EXCEPT !.isPlaying = FALSE, !.pot = 0, !.currentBets = NoBets,
               !.currentStreet = "preflop", !.foldedSet = {}, !.currentActionIndex = 0,
               !.winners = FALSE, !.ctaOverlay = FALSE, !.replayBtnDisabled = FALSE]

Hand_showCta(pg) == [pg EXCEPT !.ctaOverlay = TRUE]

Hand_finishReplay(pg) ==
    Hand_setTimeout([Hand_collectPot([pg EXCEPT !.isPlaying = FALSE]) EXCEPT
                        !.winners = TRUE, !.replayBtnDisabled = FALSE],
                    "showCta", CtaDelay)

Hand_playNextAction(pg) ==
    IF ~pg.isPlaying THEN pg
    ELSE IF pg.currentActionIndex >= Len(pg.HAND.actions) THEN Hand_finishReplay(pg)
    ELSE LET a == pg.HAND.actions[pg.currentActionIndex + 1]
             normalizedAction == capitalizeAction(a.action)
             shown == IF normalizedAction = "Fold" THEN Hand_foldSeat(pg, a.seat)
                      ELSE IF normalizedAction = "Check" THEN pg
                      ELSE IF a.amount > 0 THEN Hand_showBet(pg, a.seat, a.amount)
                      ELSE pg
         IN IF a.street # pg.currentStreet /\ a.street # "preflop"
            THEN Hand_setTimeout([Hand_collectPot(pg) EXCEPT !.currentStreet = a.street],
                                 "playNextAction", StreetDelay)
            ELSE Hand_setTimeout([shown EXCEPT !.currentActionIndex = @ + 1],
                                 "playNextAction", PlayDelay)

Hand_startReplay(pg) ==
    IF pg.isPlaying THEN pg
    ELSE Hand_playNextAction([Hand_resetState(pg) EXCEPT !.isPlaying = TRUE,
                                                          !.replayBtnDisabled = TRUE])

\* what a step of the page leaves alone
ReplayStep == UNCHANGED <<sharedHands, shareInflight, shareResponses, challengePage>>
                /\ UNCHANGED handVars /\ UNCHANGED inviteVars

\* the pending callbacks of fn that are due
Due(fn) == {i \in 1..Len(handPage.timers) : handPage.timers[i] = Timer(fn, 0)}

\* a callback is taken off the list when it runs
Taken(i) == [handPage EXCEPT !.timers = SubSeq(@, 1, i - 1) \o SubSeq(@, i + 1, Len(@))]

\* the auto-start, 1 s after init
Replay_AutoStart ==
    /\ handPage.stage = "page"
    /\ \E i \in Due("startReplay") : handPage' = Hand_startReplay(Taken(i))
    /\ ReplayStep

\* a callback of setTimeout(playNextAction, ...) runs
Replay_PlayNext ==
    /\ handPage.stage = "page"
    /\ \E i \in Due("playNextAction") : handPage' = Hand_playNextAction(Taken(i))
    /\ ReplayStep

\* a callback of setTimeout(showCta, 2000) runs
Replay_ShowCta ==
    /\ handPage.stage = "page"
    /\ \E i \in Due("showCta") : handPage' = Hand_showCta(Taken(i))
    /\ ReplayStep

\* a click on Replay: the button is enabled and not under the overlay
\* (which covers the window and takes the pointer's events when visible)
Replay_Click ==
    /\ handPage.stage = "page"
    /\ ~handPage.replayBtnDisabled /\ ~handPage.ctaOverlay
    /\ Len(handPage.timers) < MaxTimers
    /\ handPage' = Hand_startReplay(handPage)
    /\ ReplayStep

\* 200 ms pass: no callback is due
Replay_Tick ==
    /\ handPage.stage = "page"
    /\ handPage.timers # <<>>
    /\ \A i \in 1..Len(handPage.timers) : handPage.timers[i].in > 0
    /\ handPage' = [handPage EXCEPT
                       !.timers = [i \in 1..Len(@) |-> [@[i] EXCEPT !.in = @ - 1]]]
    /\ ReplayStep

InitHandPage ==
    /\ OnlyPages
    /\ challengePage = NoPage
    /\ \E hand \in HandLogs : handPage = LoadedHandPage(hand)

NextHandPage ==
    \/ Replay_AutoStart
    \/ Replay_PlayNext
    \/ Replay_ShowCta
    \/ Replay_Click
    \/ Replay_Tick

SpecHandPage == InitHandPage /\ [][NextHandPage]_vars

-----------------------------------------------------------------------------
(* Reading the output street by street.  Street k is StreetNames[k]; it is *)
(* processed once k <= Len(ends).                                          *)

SegStart(k) == IF k = 1 THEN 0 ELSE ends[k - 1].len
Seg(k) == SubSeq(queue, SegStart(k) + 1, ends[k].len)
FoldedBefore(k) == IF k = 1 THEN {} ELSE ends[k - 1].folded
StreetData(k) == Get(action, StreetNames[k])
PostSB == [position |-> "SB", action |-> "Post", amount |-> SB_POST,
           isBoard |-> FALSE, boardCards |-> ""]
PostBB == [position |-> "BB", action |-> "Post", amount |-> BB_POST,
           isBoard |-> FALSE, boardCards |-> ""]
StartsWithPosts == Len(queue) >= 2 /\ queue[1] = PostSB /\ queue[2] = PostBB

-----------------------------------------------------------------------------
(* C1 as stated: for every hand, whatever the action map holds, the output *)
(* begins with Post(SB, 0.5), Post(BB, 1.0).  Refuted by the hands whose   *)
(* preflop street is missing or is not an object.                          *)
C1_PostsFirstForEveryHand == Len(ends) >= 1 => StartsWithPosts

(* C1 amended: for every hand whose preflop street is present and is an    *)
(* object, the output begins with exactly Post(SB, 0.5) then Post(BB, 1.0),*)
(* whatever that street records and whoever the hero is.                   *)
C1_PostsFirst == (Len(ends) >= 1 /\ Present(StreetData(1))) => StartsWithPosts

\* a finished hand whose preflop map records entries for both blinds
C1_Witness ==
    /\ pc = "done"
    /\ Present(StreetData(1))
    /\ Truthy(Get(StreetData(1), "SB"))
    /\ Truthy(Get(StreetData(1), "BB"))
    /\ Len(queue) > 2
    /\ StartsWithPosts

-----------------------------------------------------------------------------
(* C2: once a position is in the running folded set at the end of a street *)
(* (preflop, flop or turn), no event emitted for a later street names it.  *)
C2_FoldedNeverActsLater ==
    \A k \in 1..Len(ends) : \A i \in (ends[k].len + 1)..Len(queue) :
        queue[i].position \notin ends[k].folded

\* a seat that folded on the flop has a turn entry, and the turn emitted events
C2_Witness ==
    /\ Len(ends) >= 3
    /\ Present(StreetData(3))
    /\ \E p \in ends[2].folded \ ends[1].folded : Truthy(Get(StreetData(3), p))
    /\ ends[3].len > ends[2].len

-----------------------------------------------------------------------------
(* C6: the running folded set is seeded empty and only grows: every        *)
(* position in it after one street is still in it after the next.          *)
C6_FoldedOnlyGrows ==
    /\ pc = "preflop" => foldedPositions = {}
    /\ \A k \in 1..Len(ends) : FoldedBefore(k) \subseteq ends[k].folded
    /\ Len(ends) >= 1 => foldedPositions = ends[Len(ends)].folded

\* a non-empty set carried into the flop, where one more seat folds
C6_Witness ==
    /\ Len(ends) >= 2
    /\ ends[1].folded # {}
    /\ ends[1].folded # ends[2].folded
    /\ ends[1].folded \subseteq ends[2].folded

-----------------------------------------------------------------------------
(* C7: for each of flop, turn and river whose board cards are found,       *)
(* exactly one Board event is emitted for the street; it is the first      *)
(* event of the street (after all earlier streets, before the street's own *)
(* actions) and has an empty position, amount 0 and isBoard = true.        *)
BoardFound(k) ==
    /\ Present(StreetData(k))
    /\ Truthy(extractBoardCards(StreetData(k), streets[k - 1].expectedCardLen))

C7_OneBoardFirst ==
    \A k \in 2..Len(ends) :
        BoardFound(k) =>
            /\ Len(Seg(k)) >= 1
            /\ Seg(k)[1].isBoard
            /\ Seg(k)[1].action = "Board"
            /\ Seg(k)[1].position = ""
            /\ Seg(k)[1].amount = 0
            /\ \A i \in 2..Len(Seg(k)) : ~Seg(k)[i].isBoard /\ Seg(k)[i].action # "Board"

\* a street with cards, events before it and actions of its own after the board
C7_Witness ==
    \E k \in 2..Len(ends) :
        /\ BoardFound(k)
        /\ SegStart(k) > 0
        /\ Len(Seg(k)) > 1

-----------------------------------------------------------------------------
(* Postflop street k (2 = flop, 3 = turn, 4 = river) as the code sees it.  *)

Decoded(k) == PostflopDecoded(StreetData(k))
Active(k) == ActivePositions(FoldedBefore(k))
Aggressor(k) == FirstAggressorIndex(Active(k), Decoded(k).pa)
AggressorAmount(k) == Decoded(k).pa[Active(k)[Aggressor(k)]].amount

\* active seats that speak after the aggressor and have no entry in the street
SilentAfterAggressorIn(seats, aggressor, d) ==
    {seats[j] : j \in {i \in (aggressor + 1)..Len(seats) :
                          seats[i] \notin DOMAIN d.pa /\ seats[i] \notin DOMAIN d.sa}}

SilentAfterAggressor(k) == SilentAfterAggressorIn(Active(k), Aggressor(k), Decoded(k))

EventsOf(k, p) == SelectSeq(Seg(k), LAMBDA e : e.position = p)

CallEv(p, amount) == [position |-> p, action |-> "Call", amount |-> amount,
                      isBoard |-> FALSE, boardCards |-> ""]

-----------------------------------------------------------------------------
(* C3 as stated: in a postflop street with an aggressor, every event       *)
(* emitted for an active seat after the aggressor that has no entry is a   *)
(* Call at the aggressor's bet amount.  Refuted when another Bet/Raise     *)
(* entry of the street carries a different amount.                         *)
C3_CallAtAggressorAmount ==
    \A k \in 2..Len(ends) :
        (Present(StreetData(k)) /\ Aggressor(k) # 0) =>
            \A p \in SilentAfterAggressor(k) : \A i \in 1..Len(EventsOf(k, p)) :
                EventsOf(k, p)[i] = CallEv(p, AggressorAmount(k))

(* C3 amended: ... every event emitted for such a seat is a Call at        *)
(* lastBetAmount, the amount of the last positive-amount Bet/Raise entry   *)
(* of the street map in key order; never a Fold or a Check, and at most    *)
(* one event per seat.                                                     *)
C3_CallAtLastBetAmount ==
    \A k \in 2..Len(ends) :
        LET seats == Active(k)
            aggressor == Aggressor(k)
            d == Decoded(k)
            events == Seg(k)
        IN (Present(StreetData(k)) /\ aggressor # 0) =>
               \A p \in SilentAfterAggressorIn(seats, aggressor, d) :
                   LET mine == SelectSeq(events, LAMBDA e : e.position = p)
                   IN /\ Len(mine) <= 1
                      /\ \A i \in 1..Len(mine) : mine[i] = CallEv(p, d.last)

\* a silent seat after the aggressor got its Call, at an amount that is not
\* the aggressor's
C3_Witness ==
    \E k \in 2..Len(ends) :
        /\ Present(StreetData(k))
        /\ Aggressor(k) # 0
        /\ \E p \in SilentAfterAggressor(k) : Len(EventsOf(k, p)) = 1
        /\ Decoded(k).last # AggressorAmount(k)

-----------------------------------------------------------------------------
(* C4: in every street, a Call event whose input entry omitted the amount  *)
(* carries the amount of the nearest preceding Bet/Raise event of that     *)
(* street (preflop: the big blind when no raise precedes it).  Stated for  *)
(* the seats whose only entry in the street is a first-orbit Call without  *)
(* amount, so that each of their Call events stems from that entry, and   *)
(* for the hands whose hero is one of the six positions.                   *)
OnlyAmountlessCall(k, p) ==
    /\ ~Malformed(Get(StreetData(k), p))
    /\ Get(Get(StreetData(k), p), "Action").s = "Call"
    /\ AmountOf(Get(StreetData(k), p)) = 0
    /\ \A i \in 1..Len(StreetData(k).e) :
           LET parsed == parsePositionKey(StreetData(k).e[i].k)
           IN (parsed.ok /\ parsed.position = p) => ~parsed.isSecondAction

PriorBets(k, i) == {j \in 1..(i - 1) : Seg(k)[j].action \in {"Bet", "Raise"}}
LastOf(S) == CHOOSE j \in S : \A m \in S : m <= j

C4_CallCarriesLiveBet ==
    \A k \in 1..Len(ends) :
        (Present(StreetData(k)) /\ hero \in ALL_POSITIONS) =>
            \A i \in 1..Len(Seg(k)) :
                (Seg(k)[i].action = "Call" /\ OnlyAmountlessCall(k, Seg(k)[i].position)) =>
                    /\ PriorBets(k, i) # {} =>
                           Seg(k)[i].amount = Seg(k)[LastOf(PriorBets(k, i))].amount
                    /\ (PriorBets(k, i) = {} /\ k = 1) => Seg(k)[i].amount = BB_POST

-----------------------------------------------------------------------------
(* C5: a postflop street with no recorded aggressor (no active seat has a  *)
(* first-orbit Bet or Raise entry) contains no inferred Call; in fact it   *)
(* contains no Call event at all.                                          *)
C5_NoCallWithoutAggressor ==
    \A k \in 2..Len(ends) :
        (Present(StreetData(k)) /\ Aggressor(k) = 0) =>
            \A i \in 1..Len(Seg(k)) : Seg(k)[i].action # "Call"

\* no aggressor, yet events were emitted, a seat recorded a Call and an
\* active seat stayed silent
C5_Witness ==
    \E k \in 2..Len(ends) :
        /\ Present(StreetData(k))
        /\ Aggressor(k) = 0
        /\ \E i \in 1..Len(Seg(k)) : ~Seg(k)[i].isBoard
        /\ \E p \in DOMAIN Decoded(k).pa : Decoded(k).pa[p].action = "Call"
        /\ \E j \in 1..Len(Active(k)) : Active(k)[j] \notin DOMAIN Decoded(k).pa

-----------------------------------------------------------------------------
(* C8: buildActionQueue has no hidden state: a later call on the input of  *)
(* the first call returns the output of the first call, whatever calls     *)
(* came in between.  Checked under SpecCalls.                              *)
C8_SameInputSameOutput ==
    (pc = "done" /\ calls > 1 /\ action = firstCall.action /\ hero = firstCall.hero) =>
        queue = firstCall.queue

\* the third call returned, on the input of the first, with events of several streets
C8_Witness ==
    /\ pc = "done"
    /\ calls = 3
    /\ action = firstCall.action
    /\ hero = firstCall.hero
    /\ foldedPositions # {}
    /\ Len(queue) > ends[1].len

-----------------------------------------------------------------------------
(* C9: with a hero that is none of the six positions the preflop list is   *)
(* the one of "hero acts last": the walk over the seats before the hero    *)
(* covers all six seats, each contributing its first-orbit event once, in  *)
(* preflop order, followed by the second orbit.                            *)
HeroActsLast(preflop) ==
    LET d == PreflopDecoded(preflop)
        hasRaise == \E p \in DOMAIN d.pa : d.pa[p].action = "Raise"
        a1 == PreflopBeforeHero(1, [actions |-> BlindPosts, folded |-> {}], d.pa, hero, hasRaise)
    IN PreflopSecondOrbit(1, a1, d.sa, hero, TrackRaises(d.pa, d.last)).actions

C9_UnknownHeroActsLast ==
    (Len(ends) >= 1 /\ Present(StreetData(1)) /\ hero \notin ALL_POSITIONS) =>
        Seg(1) = HeroActsLast(StreetData(1))

-----------------------------------------------------------------------------
(* C10 as stated: with an empty preflop map, hero BB and no later street,  *)
(* the output is exactly Post SB, Post BB.                                 *)
C10_ScenarioA_OnlyPosts ==
    (pc = "done" /\ action = ScenarioA /\ hero = "BB") => queue = <<PostSB, PostBB>>

(* C10 amended: ... the output is exactly Post SB 0.5, Post BB 1.0,        *)
(* Fold(UTG), Fold(HJ), Fold(CO), Fold(BTN): the four silent seats before  *)
(* the blinds get an inferred Fold, the silent small blind of the unraised *)
(* pot and the hero get no event.                                          *)
FoldEv(p) == [position |-> p, action |-> "Fold", amount |-> 0,
              isBoard |-> FALSE, boardCards |-> ""]

C10_ScenarioA ==
    (pc = "done" /\ action = ScenarioA /\ hero = "BB") =>
        queue = <<PostSB, PostBB, FoldEv("UTG"), FoldEv("HJ"), FoldEv("CO"), FoldEv("BTN")>>

C10_Witness == pc = "done" /\ action = ScenarioA /\ hero = "BB" /\ Len(queue) = 6

-----------------------------------------------------------------------------
(* C11: Scenario B.  For preflop = {BTN: Raise 3, BB: Call} and hero BB    *)
(* the output is exactly Post SB 0.5, Post BB 1.0, Fold(UTG), Fold(HJ),    *)
(* Fold(CO), Raise(BTN, 3), Fold(SB), Call(BB, 3).  Amounts are in half    *)
(* big blinds: 3 is 6.                                                     *)
C11_ScenarioB ==
    (pc = "done" /\ action = ScenarioB /\ hero = "BB") =>
        queue = <<PostSB, PostBB, FoldEv("UTG"), FoldEv("HJ"), FoldEv("CO"),
                  Ev("BTN", "Raise", 6), FoldEv("SB"), CallEv("BB", 6)>>

\* the finished Scenario B hand: the hero's entry is a Call without amount
C11_Witness ==
    /\ pc = "done"
    /\ action = ScenarioB
    /\ hero = "BB"
    /\ OnlyAmountlessCall(1, "BB")
    /\ Len(queue) = 8

-----------------------------------------------------------------------------
(* C12: Scenario C.  For preflop = {UTG: Raise 3, BTN: 3Bet 9, UTG_2: Call}*)
(* and hero UTG the output contains, in this order, Raise(UTG, 3) at the   *)
(* hero's turn (right after the posts), Raise(BTN, 9) and Call(UTG, 9);    *)
(* UTG has these two events and no other, so no inferred Call is added.    *)
C12_ScenarioC ==
    (pc = "done" /\ action = ScenarioC /\ hero = "UTG") =>
        /\ Len(queue) >= 3
        /\ queue[3] = Ev("UTG", "Raise", 6)
        /\ \E j \in 4..Len(queue) : \E k \in (j + 1)..Len(queue) :
               /\ queue[j] = Ev("BTN", "Raise", 18)
               /\ queue[k] = CallEv("UTG", 18)
        /\ SelectSeq(queue, LAMBDA e : e.position = "UTG")
               = <<Ev("UTG", "Raise", 6), CallEv("UTG", 18)>>
        /\ \A i \in 1..Len(queue) : queue[i].action # "3Bet"

\* the finished Scenario C hand: the 3Bet label and the second-orbit key
\* were in the input, and the second orbit emitted the last event
C12_Witness ==
    /\ pc = "done"
    /\ action = ScenarioC
    /\ hero = "UTG"
    /\ Get(Get(StreetData(1), "BTN"), "Action").s = "3Bet"
    /\ "UTG" \in DOMAIN PreflopDecoded(StreetData(1)).sa
    /\ queue[Len(queue)].position = "UTG"

-----------------------------------------------------------------------------
(* C13: Scenario D.  For flop = {BB: Check, BTN: Bet 5, BB_2: Call}, hero  *)
(* BTN and only BB and BTN active, the flop's action events are exactly    *)
(* Check(BB), Bet(BTN, 5), Call(BB, 5).                                    *)
ActionEvents(k) == SelectSeq(Seg(k), LAMBDA e : ~e.isBoard)

C13_ScenarioD ==
    (Len(ends) >= 2 /\ action = ScenarioD /\ hero = "BTN") =>
        /\ Active(2) = <<"BB", "BTN">>
        /\ ActionEvents(2) = <<Ev("BB", "Check", 0), Ev("BTN", "Bet", 10), CallEv("BB", 10)>>

\* the flop of Scenario D is processed: the seat before the aggressor has a
\* second-orbit entry without amount
C13_Witness ==
    /\ pc = "done"
    /\ action = ScenarioD
    /\ hero = "BTN"
    /\ Aggressor(2) = 2
    /\ "BB" \in DOMAIN Decoded(2).sa
    /\ AmountOf(Get(StreetData(2), "BB_2")) = 0
    /\ Len(Seg(2)) = 3

-----------------------------------------------------------------------------
(* The cards of street k as the input holds them.                          *)
MinLen(k) == streets[k - 1].expectedCardLen
StreetCards(k) == Get(StreetData(k), "Cards")
HasCards(value) ==
    Truthy(value) /\ TypeOf(value) = "object" /\ TypeOf(Get(value, "Cards")) = "string"
\* indices of the street's values that are objects with a long enough Cards string
NestedLongEnough(k) ==
    {i \in 1..Len(StreetData(k).e) :
        /\ HasCards(StreetData(k).e[i].v)
        /\ Len(Get(StreetData(k).e[i].v, "Cards").s) >= MinLen(k)}
FirstNestedCards(k) ==
    Get(StreetData(k).e[CHOOSE i \in NestedLongEnough(k) :
                            \A j \in NestedLongEnough(k) : i <= j].v, "Cards").s
\* some Cards string of the street, street-level or nested, has the minimum length
SomeCardsLongEnough(k) ==
    \/ TypeOf(StreetCards(k)) = "string" /\ Len(StreetCards(k).s) >= MinLen(k)
    \/ NestedLongEnough(k) # {}
Boards(k) == SelectSeq(Seg(k), LAMBDA e : e.isBoard)
BoardCardsOf(k) == [i \in 1..Len(Boards(k)) |-> Boards(k)[i].boardCards]

(* C14 as stated: the board of a street is its street-level Cards field    *)
(* when present, otherwise the first nested Cards string of length at      *)
(* least n, and there is no Board event whenever no Cards string of the    *)
(* street has length at least n.  Refuted by a street-level Cards string   *)
(* shorter than n, which is returned as it is.                             *)
C14_NoneBelowMinLength ==
    \A k \in 2..Len(ends) :
        Present(StreetData(k)) =>
            /\ (StreetCards(k) # JSUndefined /\ SomeCardsLongEnough(k)) =>
                   (TypeOf(StreetCards(k)) = "string"
                       /\ BoardCardsOf(k) = <<StreetCards(k).s>>)
            /\ (StreetCards(k) = JSUndefined /\ NestedLongEnough(k) # {}) =>
                   BoardCardsOf(k) = <<FirstNestedCards(k)>>
            /\ ~SomeCardsLongEnough(k) => BoardCardsOf(k) = <<>>

(* C14 amended: the board of a street is its street-level Cards field when *)
(* that is a non-empty string, whatever its length; otherwise the Cards    *)
(* string of the first nested value that is an object with a Cards string  *)
(* of length at least n; otherwise there is no Board event.                *)
C14_BoardCards ==
    \A k \in 2..Len(ends) :
        Present(StreetData(k)) =>
            BoardCardsOf(k) =
                IF TypeOf(StreetCards(k)) = "string" /\ StreetCards(k).s # ""
                THEN <<StreetCards(k).s>>
                ELSE IF NestedLongEnough(k) # {}
                THEN <<FirstNestedCards(k)>>
                ELSE <<>>

\* a flop without street-level cards whose first nested Cards string is too
\* short and whose second is long enough, and a turn without any board
C14_Witness ==
    /\ pc = "done"
    /\ Present(StreetData(2))
    /\ StreetCards(2) = JSUndefined
    /\ HasCards(Get(StreetData(2), "BB"))
    /\ Len(Get(Get(StreetData(2), "BB"), "Cards").s) < MinLen(2)
    /\ BoardCardsOf(2) = <<"2c3c4c5c">>
    /\ Present(StreetData(3))
    /\ HasCards(Get(StreetData(3), "BB"))
    /\ BoardCardsOf(3) = <<>>

-----------------------------------------------------------------------------
(* C15: for each of flop, turn and river, when the street's data is absent *)
(* from the input or is not an object (null, a string, a number), the      *)
(* street adds no event to the output, neither Board nor action, and the   *)
(* running folded set after it is the one before it.                       *)
NotAnObject(value) == value.t # "object"

-----------------------------------------------------------------------------
(* C16: an entry of a street map whose key does not decode to a position,  *)
(* or whose value lacks a string Action label, changes no non-Board event: *)
(* the output of the hand and the output of the hand without that entry    *)
(* have the same non-Board events, for every such entry of every street.   *)
DecodesToPosition(key) ==
    \E pos \in ALL_POSITIONS : key = pos \/ StartsWith(key, pos \o "_")
LacksActionLabel(value) == value.t # "object" \/ Get(value, "Action").t # "string"
IsJunk(entry) == ~DecodesToPosition(entry.k) \/ LacksActionLabel(entry.v)
JunkIn(street) ==
    IF Get(action, street).t = "object"
    THEN {i \in 1..Len(Get(action, street).e) : IsJunk(Get(action, street).e[i])}
    ELSE {}
Remove(seq, i) == SubSeq(seq, 1, i - 1) \o SubSeq(seq, i + 1, Len(seq))
\* the hand without entry i of the given street
Without(street, i) ==
    JSObj([n \in 1..Len(action.e) |->
              IF action.e[n].k = street
              THEN KV(street, JSObj(Remove(action.e[n].v.e, i)))
              ELSE action.e[n]])
NonBoard(events) == SelectSeq(events, LAMBDA e : ~e.isBoard)

C16_JunkEntriesIgnored ==
    pc = "done" =>
        \A street \in {"preflop", "flop", "turn", "river"} : \A i \in JunkIn(street) :
            NonBoard(queue) = NonBoard(buildActionQueue(Without(street, i), hero))

\* a finished hand with an unknown key in one street and, in another, a
\* position key whose value has no string Action; events of three streets
C16_Witness ==
    /\ pc = "done"
    /\ \E i \in JunkIn("preflop") : ~DecodesToPosition(StreetData(1).e[i].k)
    /\ \E i \in JunkIn("flop") :
           /\ StreetData(2).e[i].k \in ALL_POSITIONS
           /\ StreetData(2).e[i].v.t = "object"
    /\ Seg(1) # <<>> /\ Seg(2) # <<>> /\ Seg(3) # <<>>

-----------------------------------------------------------------------------
(* C17: each user can redeem only one invite: whatever requests to         *)
(* POST /api/invite/redeem were served, one after the other or             *)
(* interleaved, redeemed_invites holds at most one document per userId.    *)
(* Refuted by two requests of one user that both run the query for an      *)
(* existing redemption before either has added its document.               *)
C17_OneRedemptionPerUser ==
    \A a \in redeemedInvites : \A b \in redeemedInvites : a.userId = b.userId => a = b

-----------------------------------------------------------------------------
(* C18: a pending, unexpired invite_claims document written by             *)
(* GET /invite/:username for a visitor with IP X and device type D is      *)
(* matched by a later claim-by-fingerprint request sent from IP X with     *)
(* deviceType D and the same iOS major version by a user other than the    *)
(* inviter: the response is a success naming that inviter and the claim's  *)
(* status is redeemed.  Read on the last response: no request is answered  *)
(* without becoming the last response, so while lastResp is the answer to  *)
(* a claim, the collection is as that claim left it.                       *)
SameVisitor(doc, fingerprint) ==
    /\ Truthy(fingerprint.ip)
    /\ parseClientIP(fingerprint.ip) = [ipv4 |-> doc.redeemerIPv4, ipv6 |-> doc.redeemerIPv6]
    /\ Truthy(fingerprint.deviceType)
    /\ fingerprint.deviceType = doc.redeemerDeviceType
    /\ fingerprint.iosMajorVersion = doc.redeemerIOSMajorVersion

\* doc was pending and unexpired when the request behind lastResp was served
ClaimableThen(doc) ==
    /\ doc.createdAt.n <= lastResp.at
    /\ lastResp.at < doc.expiresAt.n
    /\ \/ doc.status = JSStr("pending")
       \/ lastResp.success /\ lastResp.token = doc.token

C18_FingerprintClaimSucceeds ==
    \A doc \in inviteClaims :
        (/\ lastResp.handler = "claim-by-fingerprint"
         /\ SameVisitor(doc, lastResp.fingerprint)
         /\ doc.inviterUserId # JSStr(lastResp.user)
         /\ ClaimableThen(doc)) =>
            /\ lastResp.success
            /\ \E claimed \in inviteClaims :
                   /\ SameVisitor(claimed, lastResp.fingerprint)
                   /\ claimed.token = lastResp.token
                   /\ claimed.inviterUserId = lastResp.inviter
                   /\ claimed.status = JSStr("redeemed")

-----------------------------------------------------------------------------
(* C19: invites expire after one hour: no invite_claims document claimed   *)
(* by fingerprint and no pending_invites document claimed by token or as   *)
(* the latest is successfully claimed more than one hour after it was      *)
(* created.  Refuted by pending_invites, whose documents are written with  *)
(* an expiry of thirty days.                                               *)
ClaimedWithinTheHour(collection) ==
    \A doc \in collection :
        doc.token = lastResp.token => lastResp.at <= doc.createdAt.n + HOUR

C19_NoClaimAfterOneHour ==
    /\ (lastResp.handler = "claim-by-fingerprint" /\ lastResp.success) =>
           ClaimedWithinTheHour(inviteClaims)
    /\ (lastResp.handler = "claim-latest-invite" /\ lastResp.success) =>
           ClaimedWithinTheHour(pendingInvites)

-----------------------------------------------------------------------------
(* C20: users cannot claim their own invites: no successful response of    *)
(* claim-by-fingerprint, claim-latest-invite or redeem names the caller as *)
(* the inviter, and no document carries the mark of such a request: no     *)
(* invite_claims or pending_invites document is redeemed by its inviter    *)
(* and no redeemed_invites document has its userId as its inviterId.       *)
C20_NoSelfClaim ==
    /\ (lastResp.success /\ lastResp.handler \in
            {"claim-by-fingerprint", "claim-latest-invite", "redeem"}) =>
           lastResp.inviter # JSStr(lastResp.user)
    /\ \A doc \in inviteClaims :
           doc.status = JSStr("redeemed") => doc.redeemedByUserId # doc.inviterUserId
    /\ \A doc \in pendingInvites : Truthy(doc.redeemed) => doc.redeemedBy # doc.inviterUid
    /\ \A doc \in redeemedInvites : doc.userId # doc.inviterId

\* a claim-by-fingerprint request of the inviter that no filter kept from the
\* inviter's own pending, unexpired claim was answered 404, the claim untouched
C20_Witness ==
    /\ lastResp.handler = "claim-by-fingerprint"
    /\ lastResp.status = 404
    /\ ~Truthy(lastResp.fingerprint.ip)
    /\ \E doc \in inviteClaims :
           /\ doc.inviterUserId = JSStr(lastResp.user)
           /\ lastResp.fingerprint.deviceType = doc.redeemerDeviceType
           /\ lastResp.fingerprint.iosMajorVersion = doc.redeemerIOSMajorVersion
           /\ doc.status = JSStr("pending")
           /\ doc.redeemedByUserId = JSNull
           /\ doc.createdAt.n <= lastResp.at
           /\ lastResp.at < doc.expiresAt.n

-----------------------------------------------------------------------------
(* C21: every POST endpoint of the invite system (claim-by-fingerprint,    *)
(* create-pending-invite, redeem, claim-latest-invite) answers 401 and     *)
(* makes no Firestore read or write when the Authorization header is       *)
(* missing, is not a Bearer token, or carries a token that fails the       *)
(* verification.  Read on every step that receives a request: a request    *)
(* with such a header is answered in that step, with 401, after no         *)
(* Firestore call and with the three collections as they were; and no      *)
(* request with such a header is ever between a read and a write.          *)
PostHandlers == {"claim-by-fingerprint", "create-pending-invite", "redeem", "claim-latest-invite"}
IssuedBearer(authorization) ==
    \E uid \in Users : authorization = JSStr("Bearer id-" \o uid)

C21_Step ==
    /\ \A i \in 1..Len(inflight') : IssuedBearer(inflight'[i].authorization)
    /\ (/\ requests' # requests
        /\ inflight' = inflight
        /\ lastResp'.handler \in PostHandlers
        /\ ~IssuedBearer(lastResp'.authorization)) =>
            /\ lastResp'.status = 401
            /\ lastResp'.firestoreCalls = 0
            /\ UNCHANGED <<inviteClaims, pendingInvites, redeemedInvites>>
    /\ (lastResp'.handler \in PostHandlers /\ lastResp'.status # 401) =>
           IssuedBearer(lastResp'.authorization)

C21_UnauthorizedIs401 == [][C21_Step]_vars

\* redeem has answered 401 to a request without Authorization header, or
\* claim-latest-invite to one with an unverifiable Bearer token, while
\* pending_invites held a document to read
C21_Rejected(handler, authorization) ==
    /\ lastResp.handler = handler
    /\ lastResp.authorization = authorization
    /\ lastResp.status = 401
    /\ pendingInvites # {}

C21_Witness ==
    \/ C21_Rejected("redeem", JSUndefined)
    \/ C21_Rejected("claim-latest-invite", JSStr("Bearer expired"))

-----------------------------------------------------------------------------
(* The preflop street as the code decodes it.                              *)
PreflopDone == Len(ends) >= 1 /\ Present(StreetData(1))
Pre == PreflopDecoded(StreetData(1))
NonPost(events) == SelectSeq(events, LAMBDA e : e.action # "Post")

\* the labels of the well-formed entries of a street map that belong to
\* position p, under its bare key or under a suffixed key
LabelsOf(street, p) ==
    {normalizeAction(Get(street.e[j].v, "Action").s) :
        j \in {i \in 1..Len(street.e) :
                  /\ parsePositionKey(street.e[i].k).ok
                  /\ parsePositionKey(street.e[i].k).position = p
                  /\ ~Malformed(street.e[i].v)}}

(* C22: the preflop reconstructor never synthesizes a hero action: apart   *)
(* from the forced blind posts, every preflop event whose position is the  *)
(* hero carries the action of an explicit hero entry of the input, under   *)
(* the hero's first-orbit key or a second-orbit key.  Refuted by a hero    *)
(* who is the original raiser of a pot raised twice and has no second-     *)
(* orbit entry: the second orbit adds a Call for the hero.                 *)
C22_NoSynthesizedHeroAction ==
    PreflopDone =>
        \A i \in 1..Len(NonPost(Seg(1))) :
            NonPost(Seg(1))[i].position = hero =>
                NonPost(Seg(1))[i].action \in LabelsOf(StreetData(1), hero)

-----------------------------------------------------------------------------
(* C23: in an unraised preflop (no first-orbit entry normalizes to Raise)  *)
(* a blind, SB or BB, with no entry is treated as live: no Fold event is   *)
(* emitted for it and it is not in the folded set after the street,        *)
(* whichever of the six positions the hero has.  Refuted by a hero seated  *)
(* before the blind: the walk over the positions after the hero gives      *)
(* every silent seat a Fold.                                               *)
Unraised == \A p \in DOMAIN Pre.pa : Pre.pa[p].action # "Raise"
SilentBlinds == {b \in {"SB", "BB"} : LabelsOf(StreetData(1), b) = {}}

C23_SilentBlindIsLive ==
    (PreflopDone /\ Unraised /\ hero \in ALL_POSITIONS) =>
        \A b \in SilentBlinds :
            /\ \A i \in 1..Len(Seg(1)) :
                   ~(Seg(1)[i].position = b /\ Seg(1)[i].action = "Fold")
            /\ b \notin ends[1].folded

-----------------------------------------------------------------------------
(* Inferred preflop Calls.  A seat has at most two Call entries, one per    *)
(* orbit, and each is emitted at most once per walk that reaches the seat; *)
(* a Call event beyond them has no entry behind it.  With a hero that is   *)
(* none of the six positions both first-orbit walks cover every seat.      *)
FirstOrbitWalks == IF hero \in ALL_POSITIONS THEN 1 ELSE 2
CallEntries(pre, p) ==
    (IF p \in DOMAIN pre.pa /\ pre.pa[p].action = "Call" THEN FirstOrbitWalks ELSE 0)
        + (IF p \in DOMAIN pre.sa /\ pre.sa[p].action = "Call" THEN 1 ELSE 0)
CallsIn(events, p) == SelectSeq(events, LAMBDA e : e.position = p /\ e.action = "Call")
CallsOf(p) == CallsIn(Seg(1), p)
HasInferredCall(pre, events, p) == Len(CallsIn(events, p)) > CallEntries(pre, p)

\* the first-orbit raisers in preflop order
RaisersOf(pre) ==
    SelectSeq(PREFLOP_ORDER, LAMBDA p : p \in DOMAIN pre.pa /\ pre.pa[p].action = "Raise")
Raisers == RaisersOf(Pre)
FacesReraise(pre, raisers, p) ==
    /\ Len(raisers) > 1
    /\ p = raisers[1]
    /\ p \notin ends[1].folded
    /\ p \notin DOMAIN pre.sa
LastCallAtFinalRaise(pre, events, raisers, p) ==
    LET pcalls == CallsIn(events, p)
    IN  pcalls[Len(pcalls)].amount = pre.pa[raisers[Len(raisers)]].amount
SpeaksAfterHero(p) ==
    hero \in ALL_POSITIONS /\ IndexOf(PREFLOP_ORDER, p) > IndexOf(PREFLOP_ORDER, hero)

(* C24 as stated: an inferred preflop Call is emitted for a position p     *)
(* exactly when more than one first-orbit raise occurred, p is the         *)
(* original raiser, p has not folded and p has no second-orbit entry; its  *)
(* amount is the final raise amount.  Refuted by an original raiser seated *)
(* after the hero: the second orbit stops at the hero and never reaches p. *)
C24_InferredCallExactlyWhen ==
    PreflopDone =>
        LET pre == Pre
            events == Seg(1)
            raisers == RaisersOf(pre)
        IN  \A p \in ALL_POSITIONS :
                LET inferred == HasInferredCall(pre, events, p)
                IN  /\ inferred <=> FacesReraise(pre, raisers, p)
                    /\ inferred => LastCallAtFinalRaise(pre, events, raisers, p)

(* C24 amended: ... exactly when more than one first-orbit raise occurred, *)
(* p is the original raiser, p has not folded, p has no second-orbit entry *)
(* and p does not speak after the hero in preflop order (the second orbit  *)
(* stops at the hero); its amount is the final raise amount, the amount of *)
(* the last first-orbit raiser in preflop order.                           *)
C24_InferredCall ==
    PreflopDone =>
        LET pre == Pre
            events == Seg(1)
            raisers == RaisersOf(pre)
        IN  \A p \in ALL_POSITIONS :
                LET inferred == HasInferredCall(pre, events, p)
                IN  /\ inferred <=> (FacesReraise(pre, raisers, p) /\ ~SpeaksAfterHero(p))
                    /\ inferred => LastCallAtFinalRaise(pre, events, raisers, p)

\* a seat before the hero got an inferred Call, in a hand where the last
\* raise in key order is not the final raise
C24_Witness ==
    /\ PreflopDone
    /\ \E p \in ALL_POSITIONS :
           /\ HasInferredCall(Pre, Seg(1), p)
           /\ hero \in ALL_POSITIONS /\ p # hero
           /\ Pre.last # Pre.pa[Raisers[Len(Raisers)]].amount

-----------------------------------------------------------------------------
(* The entries of the preflop map as the input holds them.                 *)
PreEntries == StreetData(1).e
WellFormed(i) == parsePositionKey(PreEntries[i].k).ok /\ ~Malformed(PreEntries[i].v)
LabelAt(i) == normalizeAction(Get(PreEntries[i].v, "Action").s)
IsFirstOrbitKey(i) == PreEntries[i].k \in ALL_POSITIONS
AmountlessCall(i) == WellFormed(i) /\ LabelAt(i) = "Call" /\ AmountOf(PreEntries[i].v) = 0

\* lastRaiseAmount as the claim has it: the big blind, or the amount of the
\* last first-orbit Raise entry with a positive amount
FirstOrbitRaises ==
    {i \in 1..Len(PreEntries) :
        /\ WellFormed(i) /\ IsFirstOrbitKey(i)
        /\ LabelAt(i) = "Raise" /\ AmountOf(PreEntries[i].v) > 0}
FirstOrbitLastRaise ==
    IF FirstOrbitRaises = {} THEN BB_POST
    ELSE AmountOf(PreEntries[CHOOSE i \in FirstOrbitRaises :
                                \A j \in FirstOrbitRaises : j <= i].v)

\* the seats whose only entry is a Call without amount, under the bare key
\* or under one suffixed key
OnlyAmountlessCalls(p) ==
    LET mine == {i \in 1..Len(PreEntries) :
                    WellFormed(i) /\ parsePositionKey(PreEntries[i].k).position = p}
    IN Cardinality(mine) = 1 /\ \A i \in mine : AmountlessCall(i)

(* C25: the amount given to an amount-less preflop Call is lastRaiseAmount, *)
(* which starts at the big blind 1.0 and is updated only by first-orbit     *)
(* Raise entries with a positive amount; second-orbit (suffixed-key)        *)
(* entries never change it.  Read on the seats whose only entry is a Call   *)
(* without amount: each of their Call events carries that amount.  Refuted  *)
(* by a suffixed-key Raise with a positive amount, which the decoding loop  *)
(* takes as lastRaiseAmount too.                                            *)
C25_CallTakesFirstOrbitRaise ==
    (PreflopDone /\ hero \in ALL_POSITIONS) =>
        \A p \in ALL_POSITIONS :
            OnlyAmountlessCalls(p) =>
                \A i \in 1..Len(CallsOf(p)) : CallsOf(p)[i].amount = FirstOrbitLastRaise

-----------------------------------------------------------------------------
(* C26: in a postflop street where the hero is active and has no recorded  *)
(* entry, neither under the bare key nor under a suffixed key, the street  *)
(* is truncated at the hero: no event is emitted for the hero nor for any  *)
(* seat that speaks after the hero in the street's active order.  Refuted  *)
(* by an aggressor seated after the hero: the first pass stops at the hero *)
(* before the bet is emitted, and the second pass still emits the          *)
(* responses of the seats after the aggressor.                             *)
PostflopStreets == {k \in 2..4 : k <= Len(ends) /\ Present(StreetData(k))}
HeroSilentIn(k) ==
    /\ \E i \in 1..Len(Active(k)) : Active(k)[i] = hero
    /\ hero \notin DOMAIN Decoded(k).pa
    /\ hero \notin DOMAIN Decoded(k).sa
FromHeroOn(k) ==
    {Active(k)[i] : i \in {j \in 1..Len(Active(k)) : j >= IndexOf(Active(k), hero)}}

C26_TruncatedAtSilentHero ==
    \A k \in PostflopStreets :
        HeroSilentIn(k) =>
            \A i \in 1..Len(Seg(k)) : Seg(k)[i].position \notin FromHeroOn(k)

-----------------------------------------------------------------------------
(* C27: in a postflop street with an aggressor, the events emitted after   *)
(* the aggressor's Bet/Raise follow the rotational speaking order that     *)
(* starts at the seat after the aggressor: the responses of the active     *)
(* seats after the aggressor first, in postflop order, then those of the   *)
(* active seats before the aggressor, in postflop order; the aggressor     *)
(* itself gets no second event.  With the seats ranked from the one after  *)
(* the aggressor round to the aggressor, the ranks of the events after the *)
(* bet strictly increase and none is the aggressor's.                      *)
AggressorSeat(k) == Active(k)[Aggressor(k)]
\* where the aggressor's Bet/Raise stands among the street's action events
BetIndex(k) ==
    LET acts == ActionEvents(k)
        at == {i \in 1..Len(acts) :
                  acts[i].position = AggressorSeat(k) /\ acts[i].action \in {"Bet", "Raise"}}
    IN IF at = {} THEN 0 ELSE CHOOSE i \in at : \A j \in at : i <= j
Responses(k) == SubSeq(ActionEvents(k), BetIndex(k) + 1, Len(ActionEvents(k)))
\* 1 for the seat after the aggressor, ..., Len(Active(k)) for the aggressor
RankIn(seats, aggressor, p) ==
    LET i == IndexOf(seats, p)
    IN IF i > aggressor THEN i - aggressor ELSE i + Len(seats) - aggressor
Rank(k, p) == RankIn(Active(k), Aggressor(k), p)

C27_RotationalOrder ==
    \A k \in PostflopStreets :
        LET seats == Active(k)
            aggressor == Aggressor(k)
            responses == Responses(k)
            ranks == [i \in 1..Len(responses) |-> RankIn(seats, aggressor, responses[i].position)]
        IN  (aggressor # 0 /\ BetIndex(k) # 0) =>
                /\ \A i \in 1..Len(responses) :
                       /\ IndexOf(seats, responses[i].position) # 0
                       /\ responses[i].position # seats[aggressor]
                /\ \A i, j \in 1..Len(responses) : i < j => ranks[i] < ranks[j]

\* a street where a seat after the aggressor and two seats before it have
\* responded, and the aggressor has a suffixed-key entry of its own
C27_Witness ==
    \E k \in PostflopStreets :
        /\ Aggressor(k) # 0 /\ BetIndex(k) # 0
        /\ Len(Responses(k)) >= 3
        /\ \E i \in 1..Len(Responses(k)) :
               IndexOf(Active(k), Responses(k)[i].position) > Aggressor(k)
        /\ \E i, j \in 1..Len(Responses(k)) :
               /\ i # j
               /\ IndexOf(Active(k), Responses(k)[i].position) < Aggressor(k)
               /\ IndexOf(Active(k), Responses(k)[j].position) < Aggressor(k)
        /\ AggressorSeat(k) \in DOMAIN Decoded(k).sa

-----------------------------------------------------------------------------
(* C28: every seat before the aggressor that the second pass reaches       *)
(* before stopping at the hero gets at most one response event: the        *)
(* seat's second-orbit entry when it has one, otherwise its first-orbit    *)
(* Call/Fold/Raise entry; the first-orbit entry is never emitted in        *)
(* addition to the second-orbit one, and a Fold response adds the seat to  *)
(* the newly folded set.  The first pass gives such a seat nothing but a   *)
(* Check, so the seat's events other than Check are its responses; stated  *)
(* for the seats whose second-orbit entry, if any, is not itself a Check.  *)
HeroIndex(k) == IndexOf(Active(k), hero)
HeroResponds(k) ==
    \/ hero \in DOMAIN Decoded(k).sa
    \/ hero \in DOMAIN Decoded(k).pa /\ Decoded(k).pa[hero].action = "Call"
\* the seats before the aggressor up to the hero, the hero included when
\* the walk emits for it before it stops
ReachedBeforeAggressor(k) ==
    {Active(k)[i] : i \in {j \in 1..(Aggressor(k) - 1) :
        \/ HeroIndex(k) = 0
        \/ j < HeroIndex(k)
        \/ j = HeroIndex(k) /\ HeroResponds(k)}}
ExpectedResponse(k, p) ==
    IF p \in DOMAIN Decoded(k).sa
    THEN <<Ev(p, Decoded(k).sa[p].action, Decoded(k).sa[p].amount)>>
    ELSE IF p \in DOMAIN Decoded(k).pa /\ Decoded(k).pa[p].action \in {"Call", "Fold", "Raise"}
    THEN <<Ev(p, Decoded(k).pa[p].action, Decoded(k).pa[p].amount)>>
    ELSE <<>>
ResponsesOf(k, p) ==
    SelectSeq(ActionEvents(k), LAMBDA e : e.position = p /\ e.action # "Check")

C28_OneResponseBeforeAggressor ==
    \A k \in PostflopStreets :
        Aggressor(k) # 0 =>
            \A p \in ReachedBeforeAggressor(k) :
                ~(p \in DOMAIN Decoded(k).sa /\ Decoded(k).sa[p].action = "Check") =>
                    /\ ResponsesOf(k, p) = ExpectedResponse(k, p)
                    /\ \A i \in 1..Len(ResponsesOf(k, p)) :
                           ResponsesOf(k, p)[i].action = "Fold" => p \in ends[k].folded

\* a seat before the aggressor with a first-orbit Call and a second-orbit
\* Fold has responded with the Fold alone and is folded after the street
C28_Witness ==
    \E k \in PostflopStreets :
        /\ Aggressor(k) # 0
        /\ \E p \in ReachedBeforeAggressor(k) :
               /\ p \in DOMAIN Decoded(k).sa /\ Decoded(k).sa[p].action = "Fold"
               /\ p \in DOMAIN Decoded(k).pa /\ Decoded(k).pa[p].action = "Call"
               /\ Len(ResponsesOf(k, p)) = 1
               /\ p \in ends[k].folded /\ p \notin FoldedBefore(k)

-----------------------------------------------------------------------------
(* C29: in the first pass of a postflop street an inferred Check is        *)
(* emitted for a seat with no entry only if some later active seat has a   *)
(* recorded first-orbit entry; in particular a street whose map has no     *)
(* decodable seat entries produces no action events at all.  A seat        *)
(* without first-orbit entry gets a Check from no other place than the     *)
(* first pass, unless its second-orbit entry is itself a Check.            *)
NoFirstOrbitEntry(k) ==
    {Active(k)[i] : i \in {j \in 1..Len(Active(k)) : Active(k)[j] \notin DOMAIN Decoded(k).pa}}
ChecksOf(k, p) == SelectSeq(ActionEvents(k), LAMBDA e : e.position = p /\ e.action = "Check")
RecordedLater(k, p) ==
    \E j \in 1..Len(Active(k)) :
        j > IndexOf(Active(k), p) /\ Active(k)[j] \in DOMAIN Decoded(k).pa

C29_CheckOnlyBeforeRecordedSeat ==
    \A k \in PostflopStreets :
        /\ \A p \in NoFirstOrbitEntry(k) :
               (/\ ~(p \in DOMAIN Decoded(k).sa /\ Decoded(k).sa[p].action = "Check")
                /\ Len(ChecksOf(k, p)) > 0) => RecordedLater(k, p)
        /\ (DOMAIN Decoded(k).pa = {} /\ DOMAIN Decoded(k).sa = {}) => ActionEvents(k) = <<>>

\* in one street a silent seat before a recorded seat got its Check and a
\* silent seat after the last recorded seat, reached by the walk, got none
C29_Witness ==
    \E k \in PostflopStreets :
        \E p, q \in NoFirstOrbitEntry(k) :
            /\ Len(ChecksOf(k, p)) = 1 /\ RecordedLater(k, p)
            /\ ~RecordedLater(k, q) /\ EventsOf(k, q) = <<>>
            /\ (HeroIndex(k) = 0 \/ IndexOf(Active(k), q) < HeroIndex(k))

-----------------------------------------------------------------------------
(* A seat's suffixed keys in a street map, and the events they lead to.    *)
(* In the preflop list a seat with a first-orbit entry has that entry's    *)
(* event first and its second-orbit events after it (hero one of the six   *)
(* positions); in a postflop street the second-orbit events of a seat are  *)
(* its responses in the walk over the seats before the aggressor.          *)
StreetDone(k) == k <= Len(ends) /\ Present(StreetData(k))
SuffixedOf(k, p) ==
    LET entries == StreetData(k).e
    IN  {i \in 1..Len(entries) :
            LET parsed == parsePositionKey(entries[i].k)
            IN  /\ parsed.ok
                /\ parsed.isSecondAction
                /\ parsed.position = p
                /\ ~Malformed(entries[i].v)}
KeyIndex(k, key) == IndexOf([i \in 1..Len(StreetData(k).e) |-> StreetData(k).e[i].k], key)
HasSecondAndThird(k, p) ==
    /\ KeyIndex(k, p \o "_2") \in SuffixedOf(k, p)
    /\ KeyIndex(k, p \o "_3") \in SuffixedOf(k, p)
LastSuffixed(k, p) == CHOOSE i \in SuffixedOf(k, p) : \A j \in SuffixedOf(k, p) : j <= i
\* the event of entry i of the street map: its normalized label and its
\* amount, a Call without amount taking the street's last raise or bet
StreetLast(k) == IF k = 1 THEN Pre.last ELSE Decoded(k).last
EntryEvent(k, p, i) ==
    LET value == StreetData(k).e[i].v
        label == normalizeAction(Get(value, "Action").s)
    IN Ev(p, label, IF label = "Call" /\ AmountOf(value) = 0 THEN StreetLast(k)
                    ELSE AmountOf(value))
SecondOrbitEvents(k, p) ==
    IF k = 1 THEN Tail(SelectSeq(NonPost(Seg(1)), LAMBDA e : e.position = p))
    ELSE ResponsesOf(k, p)
\* the seats whose second-orbit events can be told from their other events
Reopened(k) ==
    IF k = 1 THEN IF hero \in ALL_POSITIONS THEN ALL_POSITIONS \cap DOMAIN Pre.pa ELSE {}
    ELSE IF Aggressor(k) = 0 THEN {}
    ELSE {p \in ReachedBeforeAggressor(k) :
             \A i \in SuffixedOf(k, p) : EntryEvent(k, p, i).action # "Check"}

(* C30 as stated: when a street records more than one suffixed key for the *)
(* same position (a second and a third orbit, BTN_2 and BTN_3), the engine *)
(* keeps the second-orbit entry and silently drops the third: at most one  *)
(* second-orbit event is emitted for that position and it carries the      *)
(* BTN_2 entry's action and amount.  Refuted by a map that holds BTN_3     *)
(* after BTN_2: the later key overwrites the earlier one.                  *)
C30_SecondOrbitEntryKept ==
    \A k \in 1..4 : StreetDone(k) =>
        \A p \in Reopened(k) : HasSecondAndThird(k, p) =>
            LET emitted == SecondOrbitEvents(k, p)
                kept == EntryEvent(k, p, KeyIndex(k, p \o "_2"))
            IN  /\ Len(emitted) <= 1
                /\ \A i \in 1..Len(emitted) : emitted[i] = kept

(* C30 amended: when a street records more than one suffixed key for the   *)
(* same position, the engine keeps the entry of the suffixed key that      *)
(* comes last in the map's key order and silently drops the others         *)
(* (BTN_3 when it was recorded after BTN_2): at most one second-orbit      *)
(* event is emitted for that position and it carries that entry's action   *)
(* and amount.                                                             *)
C30_LastSuffixedKeyKept ==
    \A k \in 1..4 : StreetDone(k) =>
        \A p \in Reopened(k) :
            LET suffixed == SuffixedOf(k, p)
            IN  Cardinality(suffixed) > 1 =>
                    LET emitted == SecondOrbitEvents(k, p)
                        kept == EntryEvent(k, p, CHOOSE i \in suffixed : \A j \in suffixed : j <= i)
                    IN  /\ Len(emitted) <= 1
                        /\ \A i \in 1..Len(emitted) : emitted[i] = kept

\* a preflop or a flop in which a seat with a _2 key followed by a _3 key
\* of another label got its one second-orbit event
C30_Emitted(k) ==
    \E p \in Reopened(k) :
        /\ HasSecondAndThird(k, p)
        /\ KeyIndex(k, p \o "_2") < KeyIndex(k, p \o "_3")
        /\ EntryEvent(k, p, KeyIndex(k, p \o "_2")) # EntryEvent(k, p, KeyIndex(k, p \o "_3"))
        /\ Len(SecondOrbitEvents(k, p)) = 1
C30_Witness ==
    \/ StreetDone(1) /\ C30_Emitted(1)
    \/ StreetDone(2) /\ C30_Emitted(2)

-----------------------------------------------------------------------------
(* Key order of a street map.  Every permutation of the keys of a map is a *)
(* chain of swaps of two neighbouring keys, so an output that no such swap *)
(* changes is the same for every key order.                                *)
SwapNeighbours(seq, i) ==
    [n \in 1..Len(seq) |-> IF n = i THEN seq[i + 1] ELSE IF n = i + 1 THEN seq[i] ELSE seq[n]]
\* the hand with keys i and i + 1 of the given street exchanged
WithSwappedKeys(street, i) ==
    JSObj([n \in 1..Len(action.e) |->
              IF action.e[n].k = street
              THEN KV(street, JSObj(SwapNeighbours(action.e[n].v.e, i)))
              ELSE action.e[n]])
SwappableIn(street) ==
    IF Get(action, street).t = "object" THEN 1..(Len(Get(action, street).e) - 1) ELSE {}

(* C31: the output of buildActionQueue depends only on the contents of     *)
(* each street map, not on the order of its keys: exchanging two           *)
(* neighbouring keys of any street map leaves the output sequence          *)
(* unchanged.  Refuted by a flop that holds a Bet and a Raise: the amount  *)
(* of an inferred Call is that of whichever of the two comes last in key   *)
(* order.                                                                  *)
C31_KeyOrderIrrelevant ==
    pc = "done" =>
        \A street \in {"preflop", "flop", "turn", "river"} : \A i \in SwappableIn(street) :
            buildActionQueue(WithSwappedKeys(street, i), hero) = queue

-----------------------------------------------------------------------------
(* C32: once a Fold event has been emitted for a position, no later event  *)
(* of the output queue, in the same street or in a later one, names that   *)
(* position; for every position, the hero included.  Stated for a hero     *)
(* that is one of the six positions.  Refuted by a hero whose own preflop  *)
(* entry is a Fold: the hero's event is pushed without the hero joining    *)
(* the folded set, so the hero is still an active seat afterwards.         *)
C32_NoEventAfterFold ==
    hero \in ALL_POSITIONS =>
        \A i, j \in 1..Len(queue) :
            (i < j /\ queue[i].action = "Fold") => queue[j].position # queue[i].position

-----------------------------------------------------------------------------
(* C33: in every postflop street's output, each Call, Fold or Raise        *)
(* response event is preceded, within that street's events, by the         *)
(* aggressor's Bet or Raise event: no response is emitted to a bet that    *)
(* was not itself emitted.  Every Call, Fold or Raise event of the street  *)
(* other than the aggressor's own is a response.  Refuted by a silent hero *)
(* seated before the aggressor: the first pass stops at the hero, the bet  *)
(* is never pushed, and the second pass still walks the seats after the    *)
(* aggressor.                                                              *)
IsResponse(k, e) ==
    /\ e.action \in {"Call", "Fold", "Raise"}
    /\ ~(Aggressor(k) # 0 /\ e.position = AggressorSeat(k) /\ e.action = "Raise")

C33_ResponseFollowsBet ==
    \A k \in PostflopStreets :
        LET acts == ActionEvents(k)
        IN  \A i \in 1..Len(acts) :
                IsResponse(k, acts[i]) =>
                    /\ Aggressor(k) # 0
                    /\ BetIndex(k) # 0
                    /\ BetIndex(k) < i

-----------------------------------------------------------------------------
(* C35: an invite claim is redeemed at most once: for any invite_claims    *)
(* document, over all users and all interleavings of claim-by-fingerprint  *)
(* requests, at most one request returns success for it, and once its      *)
(* status is redeemed its redeemedByUserId never changes.  As a property   *)
(* of every step: a request that answers 200 for a token finds its         *)
(* document still pending, and a redeemed document keeps its redeemer.     *)
(* Refuted by two requests that both read the document before either       *)
(* writes: the query and the update are separate awaits.                   *)
ClaimOf(token) == {doc \in inviteClaims : doc.token = JSStr(token)}
AnswersSuccess(i) ==
    /\ inflight[i].handler = "claim-by-fingerprint"
    /\ inflight' = Drop(inflight, i)
    /\ lastResp'.handler = "claim-by-fingerprint"
    /\ lastResp'.status = 200
    /\ lastResp'.token = JSStr(inflight[i].token)
C35_Step ==
    /\ \A i \in 1..Len(inflight) :
           AnswersSuccess(i) =>
               \A doc \in ClaimOf(inflight[i].token) : doc.status = JSStr("pending")
    /\ \A doc \in inviteClaims : \A after \in inviteClaims' :
           (doc.token = after.token /\ doc.status = JSStr("redeemed")) =>
               after.redeemedByUserId = doc.redeemedByUserId
C35_RedeemedAtMostOnce == [][C35_Step]_vars

\* C34: the builder private to the challenge page's handler and the builder
\* exported by hands/lib/types.ts give the same event list for the same
\* action data and hero: the queue the handler put into PUZZLE is the list
\* the exported builder gives for `p.Action || {}` and `p.Hero || ''`.
C34_CopiesAgree ==
    challengePage.stage = "page" =>
        LET p == challengePage.p
        IN challengePage.PUZZLE.actionQueue =
               buildActionQueue(Or(p.Action, JSObj(<<>>)), Or(p.Hero, JSStr("")).s)

\* a served page whose queue has blinds, a raise, a fold, a board and a
\* postflop call
C34_Witness ==
    /\ challengePage.stage = "page"
    /\ LET q == challengePage.PUZZLE.actionQueue
       IN /\ \E i \in 1..Len(q) : q[i].action = "Post"
          /\ \E i \in 1..Len(q) : q[i].action = "Raise"
          /\ \E i \in 1..Len(q) : q[i].action = "Fold"
          /\ \E i, j \in 1..Len(q) : i < j /\ q[i].isBoard /\ q[j].action = "Call"

\* C37: on the challenge page, whatever Next, Prev and Reset presses and
\* showQuestion timer callbacks have happened, phase = 'question' implies
\* that currentActionIndex is the last index of the action queue.
C37_QuestionOnlyAtEnd ==
    (challengePage.stage = "page" /\ challengePage.phase = "question") =>
        challengePage.currentActionIndex = Len(challengePage.PUZZLE.actionQueue) - 1

\* C38: on the challenge page, with Next pressed whenever it can be and
\* every timer callback run, the question phase is eventually reached from
\* the initial state of every page the handler serves, the page of a puzzle
\* without Action data included.
C38_NextReachesQuestion == <>(challengePage.phase = "question")

\* C36: sharing is idempotent per (hand_id, user_id): whatever share
\* requests have been received and however they interleaved, shared_hands
\* holds at most one document for a pair of hand_id and user_id, and all
\* the 200 responses for that pair carry the same share_id.
C36_ShareIdempotent ==
    /\ \A d1, d2 \in sharedHands :
          (d1.hand_id = d2.hand_id /\ d1.user_id = d2.user_id) => d1 = d2
    /\ \A i, j \in 1..Len(shareResponses) :
          LET r1 == shareResponses[i]
              r2 == shareResponses[j]
          IN (r1.status = 200 /\ r2.status = 200 /\ r1.hand_id = r2.hand_id
                  /\ r1.user_id = r2.user_id)
                 => r1.share_id = r2.share_id

\* C39: on the shared-hand replay page the download overlay is visible
\* only while no replay is playing: whenever Replay is clicked relative to
\* the auto-start timer and the showCta timer, ctaOverlay visible implies
\* isPlaying = false.
C39_OverlayOnlyWhenStopped ==
    (handPage.stage = "page" /\ handPage.ctaOverlay) => ~handPage.isPlaying

====
